---- MODULE Spec2Model ----
(***************************************************************************)
(* The connection pool of pymongo/pool.py (class Pool, with the parts of   *)
(* SocketInfo the pool reads) as a state machine.                          *)
(*                                                                         *)
(* Granularity: one action per critical section of the pool lock           *)
(* (self.lock, shared by size_cond and _max_connecting_cond) and one per   *)
(* unlocked read or write of pool state that lies between two critical     *)
(* sections.  Reads and writes that only touch a thread's own locals are   *)
(* folded into the neighbouring step.  A thread blocked in                 *)
(* Condition.wait sits at a pc of its own and leaves it only by a          *)
(* notify()/notify_all() of another thread or by its timeout.              *)
(*                                                                         *)
(* Specifications: Spec is a pool without event listeners in a process     *)
(* that does not fork; SpecEvents is the same pool with CMAP listeners;    *)
(* SpecFork adds os.fork(); SpecPerished applies Pool._perished to         *)
(* connections of every age, generation and liveness; SpecLive is          *)
(* SpecEvents with the fairness of a scheduler that runs every thread;     *)
(* SpecLock splits ready, reset, close, connect, update_is_writable and    *)
(* _get_socket into their reads and writes of shared fields and records    *)
(* who holds the lock; SpecScope runs checkouts through the get_socket     *)
(* context manager; SpecIdle adds a clock, last_checkin_time and           *)
(* max_idle_time_seconds; SpecWake is a pool that stays READY, with        *)
(* fairness; SpecDial follows a checkout and the min-fill from one with    *)
(* block on the lock to the next; SpecWaiters is a pool with listeners and *)
(* wait_queue_multiple.                                                    *)
(***************************************************************************)
EXTENDS Integers, Sequences, FiniteSets, TLC

(* ---- bounds of the model -------------------------------------------- *)
\* caller threads that use the pool concurrently
NThreads == 2
\* resets/closes explored: _reset is not taken once generation reached it
MaxGeneration == 2
\* connections created: connect() is not taken once next_connection_id
\* passed it
MaxConnectionId == 2
\* idle times, in seconds, of the connections given to _perished
MaxIdleTime == 2
\* checkouts are not started once operation_count reached it (a failed
\* checkout leaves operation_count raised, so it is unbounded otherwise)
MaxOperationCount == NThreads

Threads == 1..NThreads

(* ---- PoolState (pool.py 1022-1025) ----------------------------------- *)
PAUSED == 1
READY == 2
CLOSED == 3

\* Python's None for an option that is not configured
None == 0 - 1
\* float('inf') of Pool.__init__ (max_pool_size, max_waiters)
Inf == 0 - 2
\* a < b where b may be float('inf'); a is always a finite counter
Lt(a, b) == IF b = Inf THEN TRUE ELSE a < b
\* the value of a thread's or of maintenance's sock_info when it has none
NoConn == [id |-> 0, gen |-> 0 - 1, closed |-> FALSE, reason |-> "none"]
\* a connection after close_socket(reason): nothing of it is read again but
\* the closed flag
ClosedConn(reason) ==
  [id |-> 0, gen |-> 0 - 1, closed |-> TRUE, reason |-> reason]

VARIABLES
  opts,                \* Pool.opts: the PoolOptions the pool was built with
  state,               \* Pool.state
  generation,          \* Pool.generation
  sockets,             \* Pool.sockets: the idle deque, front (left) first
  active_sockets,      \* Pool.active_sockets
  requests,            \* Pool.requests
  waiters,             \* Pool.waiters
  _pending,            \* Pool._pending
  operation_count,     \* Pool.operation_count
  next_connection_id,  \* Pool.next_connection_id
  forked,              \* Pool.pid != os.getpid()
  pc,                  \* per caller thread: its position in get_socket/return_socket
  held,                \* per caller thread: its sock_info (NoConn when it has none)
  emitted_event,       \* per caller thread: _get_socket's local emitted_event
  delta,               \* per caller thread: the net change its current checkout
                       \* (and checkin) has applied to the pool counters so far
  mpc,                 \* the maintenance thread's position in remove_stale_sockets
  mref,                \* remove_stale_sockets' reference_generation argument
  mconn,               \* remove_stale_sockets' sock_info
  mcont,               \* whether remove_stale_sockets loops again after its finally
  emitted,             \* the events the listeners received in the latest step, in order
  closedOnce,          \* history: a close() call has returned
  cleared,             \* history: the threads a pausing reset() or a close() woke
                       \* from a wait and that have not run since
  p_args,              \* SpecPerished: the connection and pool given to _perished
  p_result,            \* SpecPerished: what _perished did with it
  lock,                \* SpecLock: the thread that holds Pool.lock, or "none"
  lpc,                 \* SpecLock: per thread, its position in its method
  old_state,           \* SpecLock: per thread, the local old_state of ready/_reset
  is_writable,         \* SpecLock: Pool.is_writable
  scope,               \* SpecScope: per caller thread, where it is in the with
                       \* block of get_socket, and get_socket's checkout argument
  now,                 \* SpecIdle: time.monotonic(), in seconds
  last_checkin_time    \* SpecIdle: per connection id, SocketInfo.last_checkin_time

poolvars == <<state, generation, sockets, active_sockets, requests, waiters,
              _pending, operation_count>>
maintvars == <<mpc, mref, mconn, mcont>>
timevars == <<now, last_checkin_time>>
\* what only the steps of SpecPerished, SpecLock, SpecScope and SpecIdle
\* change
envvars == <<p_args, p_result, lock, lpc, old_state, is_writable, scope,
             timevars>>
vars == <<opts, poolvars, next_connection_id, forked, pc, held,
          emitted_event, delta, maintvars, emitted, closedOnce, cleared,
          envvars>>

(* ---- options (PoolOptions.__init__, pool.py 266-290) ------------------ *)
\* The options the pool is built with.  wait_queue_timeout is configured,
\* pause_enabled is True (its default) and min_pool_size is at least 1 in
\* all of them: the runs of a pool without a timeout, without pause (it
\* starts READY and reset() is reset_without_pause()) or with min_pool_size
\* 0 (remove_stale_sockets creates nothing) are among the runs of these.
\* max_idle_time_seconds and event_listeners are None (their defaults).
PoolOptions(max_pool, min_pool, multiple) ==
  [max_pool_size         |-> max_pool,
   min_pool_size         |-> min_pool,
   max_connecting        |-> 1,
   wait_queue_multiple   |-> multiple,
   wait_queue_timeout    |-> 1,
   pause_enabled         |-> TRUE,
   max_idle_time_seconds |-> None,
   event_listeners       |-> FALSE]
PoolOptionsSet ==
  {PoolOptions(1, 1, None), PoolOptions(1, 1, 1), PoolOptions(2, 1, None),
   PoolOptions(1, 2, None)}
\* the options of SpecEvents: event_listeners with CMAP
\* listeners, with pause_enabled (the default) and without it
WithListeners(options, pause) ==
  [options EXCEPT !.event_listeners = TRUE, !.pause_enabled = pause]
PoolOptionsEvents ==
  {WithListeners(PoolOptions(1, 1, None), TRUE),
   WithListeners(PoolOptions(1, 1, None), FALSE),
   WithListeners(PoolOptions(2, 1, None), TRUE)}
\* the options of SpecLive: a pool whose min-fill competes with the callers
\* for the one request slot and for the one creation slot, and a pool
\* (without pause: it starts READY) that admits both callers while its
\* min-fill holds the one creation slot
PoolOptionsLive ==
  {WithListeners(PoolOptions(1, 2, None), TRUE),
   WithListeners(PoolOptions(3, 3, None), FALSE)}
\* the options of SpecFork
PoolOptionsFork == {PoolOptions(1, 2, None)}

\* Pool.__init__ 1080-1082
max_pool_size ==
  IF opts.max_pool_size = None THEN Inf ELSE opts.max_pool_size
\* Pool.__init__ 1069-1074, 1084
max_waiters ==
  IF opts.wait_queue_multiple = None \/ opts.max_pool_size = None
    THEN Inf
    ELSE opts.max_pool_size * opts.wait_queue_multiple
\* Pool.__init__ 1089
_max_connecting == opts.max_connecting
\* Pool.__init__ 1064-1067 (handshake is True: this is no Monitor pool)
enabled_for_cmap == opts.event_listeners

Zero == [req |-> 0, act |-> 0, op |-> 0, wait |-> 0, pend |-> 0]
\* the arguments of _perished when it is not called
NoArgs == [idle_time |-> 0, socket_closed |-> FALSE, sock_generation |-> 0,
           pool_generation |-> 0, max_idle_time_seconds |-> None,
           _check_interval_seconds |-> None]

\* SpecScope: a caller thread that is not in a with block of get_socket
OutOfScope == [at |-> "out", checkout |-> FALSE, raised |-> FALSE]

\* SpecLock: one thread for each method that writes state, generation,
\* sockets, is_writable or a counter, named after the method it calls;
\* SpecDial: the caller in _get_socket and the maintenance thread in
\* remove_stale_sockets
LockThreads ==
  {"reset", "close", "ready", "connect", "update_is_writable", "_get_socket",
   "remove_stale_sockets"}

\* Pool.__init__ 1038-1095 with the given options: the pool right after
\* construction (args: the calls of _perished that SpecPerished makes)
InitWith(options, args) ==
  /\ opts \in options
  /\ state = IF opts.pause_enabled THEN PAUSED ELSE READY
  /\ generation = 0
  /\ sockets = <<>>
  /\ active_sockets = 0
  /\ requests = 0
  /\ waiters = 0
  /\ _pending = 0
  /\ operation_count = 0
  /\ next_connection_id = 1
  /\ forked = FALSE
  /\ pc = [t \in Threads |-> "idle"]
  /\ held = [t \in Threads |-> NoConn]
  /\ emitted_event = [t \in Threads |-> FALSE]
  /\ delta = [t \in Threads |-> Zero]
  /\ mpc = "m_idle"
  /\ mref = 0
  /\ mconn = NoConn
  /\ mcont = FALSE
  /\ emitted = <<>>
  /\ closedOnce = FALSE
  /\ cleared = {}
  /\ p_args \in args
  /\ p_result = "unset"
  /\ lock = "none"
  /\ lpc = [th \in LockThreads |-> "idle"]
  /\ old_state = [th \in LockThreads |-> None]
  /\ is_writable = None
  /\ scope = [t \in Threads |-> OutOfScope]
  /\ now = 0
  /\ last_checkin_time = [id \in 1..MaxConnectionId |-> 0]

Init == InitWith(PoolOptionsSet, {NoArgs})

(* ---- helpers ---------------------------------------------------------- *)
\* Pool.closed 1103-1105
closed == state = CLOSED

\* Condition.notify(): one of the threads waiting at pc `from` (any one of
\* them) is moved to `to`, where it competes for the lock again; nothing
\* happens when no thread waits.  The set of the possible outcomes.
Notify(pcs, from, to) ==
  LET ws == {w \in Threads : pcs[w] = from}
  IN IF ws = {} THEN {pcs} ELSE {[pcs EXCEPT ![w] = to] : w \in ws}

\* Condition.notify_all()
NotifyAll(pcs, from, to) ==
  [w \in Threads |-> IF pcs[w] = from THEN to ELSE pcs[w]]

\* size_cond.notify(): a thread in the admission wait wakes up
NotifySize(pcs) == Notify(pcs, "adm_wait", "adm_woken")
\* _max_connecting_cond.notify(): a thread in the creation wait wakes up
NotifyConnecting(pcs) == Notify(pcs, "cr_wait", "cr_woken")

\* the counters' change in this step, added to thread t's delta
Track(t) ==
  [delta EXCEPT ![t] =
     [req  |-> @.req + (requests' - requests),
      act  |-> @.act + (active_sockets' - active_sockets),
      op   |-> @.op + (operation_count' - operation_count),
      wait |-> @.wait + (waiters' - waiters),
      pend |-> @.pend + (_pending' - _pending)]]
\* a checkout that failed is no round trip: its delta is dropped
Forget(t) == [delta EXCEPT ![t] = Zero]

(* ---- events ------------------------------------------------------------ *)
\* an event as a listener receives it: its class, the reason it carries (or
\* "none") and the connection id it carries (or 0)
Event(name, reason, id) == [name |-> name, reason |-> reason, id |-> id]
\* publish_*: the listeners receive es when the pool is enabled_for_cmap
Publish(es) == IF enabled_for_cmap THEN es ELSE <<>>
\* SocketInfo.close_socket 810-817: the connection afterwards
CloseSocket(sock_info, reason) ==
  IF sock_info.closed THEN sock_info ELSE ClosedConn(reason)
\* CloseSocketEvents without the test of self.closed (811-812)
CloseSocketEvents_again(sock_info, reason) ==
  <<Event("ConnectionClosed", reason, sock_info.id)>>
\* SocketInfo.close_socket 810-817: the events it publishes
CloseSocketEvents(sock_info, reason) ==
  IF sock_info.closed
    THEN <<>>
    ELSE <<Event("ConnectionClosed", reason, sock_info.id)>>
\* close_socket(reason) on every connection of a drained deque, in its order
RECURSIVE CloseAllEvents(_, _)
CloseAllEvents(socks, reason) ==
  IF socks = <<>>
    THEN <<>>
    ELSE CloseSocketEvents(Head(socks), reason)
           \o CloseAllEvents(Tail(socks), reason)

\* whether es holds an event of this class and reason
Has(es, name, reason) ==
  \E i \in DOMAIN es : es[i].name = name /\ es[i].reason = reason

\* whether es holds a CheckOutFailed of one of these reasons
Failed(es, reasons) ==
  \E r \in reasons : Has(es, "ConnectionCheckOutFailed", r)

\* the ids of the connections that are open: in the idle deque, with a
\* caller thread or with remove_stale_sockets
OpenIds ==
  {sockets[i].id : i \in DOMAIN sockets}
    \cup {held[t].id : t \in {u \in Threads : held[u] # NoConn
                                             /\ ~held[u].closed}}
    \cup (IF mconn # NoConn /\ ~mconn.closed THEN {mconn.id} ELSE {})

(* ---- Pool.ready, Pool._reset, reset, reset_without_pause, close ------- *)
\* ready with PoolReady published whatever old_state was (1099)
ready_always_publishes ==
  /\ state' = READY
  /\ emitted' = Publish(<<Event("PoolReady", "none", 0)>>)
  /\ UNCHANGED <<opts, generation, sockets, active_sockets, requests, waiters,
                 _pending, operation_count, next_connection_id, forked, pc,
                 held, emitted_event, delta, maintvars, closedOnce, cleared,
                 envvars>>

\* Pool.ready 1097-1101: the state is written without the lock and whatever
\* it was, CLOSED included; PoolReady is published when it was not READY
ready ==
  /\ state' = READY
  /\ emitted' = Publish(IF state # READY
                          THEN <<Event("PoolReady", "none", 0)>>
                          ELSE <<>>)
  /\ UNCHANGED <<opts, generation, sockets, active_sockets, requests, waiters,
                 _pending, operation_count, next_connection_id, forked, pc,
                 held, emitted_event, delta, maintvars, closedOnce, cleared,
                 envvars>>

\* the waits a pausing reset or a close ends: the threads blocked in the
\* admission wait or in the creation wait
Blocked(pcs) == {w \in Threads : pcs[w] \in {"adm_wait", "cr_wait"}}

\* _reset without the notify_all of 1124-1125
_reset_no_wake(close_, pause, pcs) ==
  IF closed
    THEN /\ pc' = pcs
         /\ UNCHANGED <<state, generation, sockets, active_sockets,
                        operation_count, forked, cleared>>
    ELSE /\ generation < MaxGeneration
         /\ state' = IF close_ THEN CLOSED
                     ELSE IF opts.pause_enabled /\ pause THEN PAUSED
                     ELSE state
         /\ generation' = generation + 1
         /\ IF forked
              THEN active_sockets' = 0 /\ operation_count' = 0
              ELSE UNCHANGED <<active_sockets, operation_count>>
         /\ forked' = FALSE
         /\ sockets' = <<>>
         /\ pc' = pcs
         /\ cleared' = IF state' # READY THEN cleared \cup Blocked(pcs)
                                         ELSE cleared

\* _reset without the early return of 1110-1111
_reset_when_closed(close_, pause, pcs) ==
  /\ generation < MaxGeneration
  /\ state' = IF close_ THEN CLOSED
              ELSE IF opts.pause_enabled /\ pause THEN PAUSED
              ELSE state
  /\ generation' = generation + 1
  /\ IF forked
       THEN active_sockets' = 0 /\ operation_count' = 0
       ELSE UNCHANGED <<active_sockets, operation_count>>
  /\ forked' = FALSE
  /\ sockets' = <<>>
  /\ pc' = NotifyAll(NotifyAll(pcs, "cr_wait", "cr_woken"),
                     "adm_wait", "adm_woken")
  /\ cleared' = IF state' # READY THEN cleared \cup Blocked(pcs)
                                  ELSE cleared

\* Pool._reset 1107-1125, the critical section, run by a thread whose own
\* position is already set in pcs.  old_state (1108, 1113) is the state the
\* critical section finds.
_reset(close_, pause, pcs) ==
  IF closed
    THEN /\ pc' = pcs
         /\ UNCHANGED <<state, generation, sockets, active_sockets,
                        operation_count, forked, cleared>>
    ELSE /\ generation < MaxGeneration
         /\ state' = IF close_ THEN CLOSED
                     ELSE IF opts.pause_enabled /\ pause THEN PAUSED
                     ELSE state
         /\ generation' = generation + 1
         /\ IF forked
              THEN active_sockets' = 0 /\ operation_count' = 0
              ELSE UNCHANGED <<active_sockets, operation_count>>
         /\ forked' = FALSE
         /\ sockets' = <<>>
         /\ pc' = NotifyAll(NotifyAll(pcs, "cr_wait", "cr_woken"),
                            "adm_wait", "adm_woken")
         /\ cleared' = IF state' # READY THEN cleared \cup Blocked(pcs)
                                         ELSE cleared

\* _reset_events with PoolCleared published whatever old_state was (1137)
_reset_events_always_cleared(close_, pause) ==
  IF closed
    THEN <<>>
    ELSE IF close_
      THEN CloseAllEvents(sockets, "POOL_CLOSED")
             \o <<Event("PoolClosed", "none", 0)>>
      ELSE <<Event("PoolCleared", "none", 0)>>
             \o CloseAllEvents(sockets, "STALE")

\* _reset_events with the events of 1131-1140 in the other order
_reset_events_closed_first(close_, pause) ==
  IF closed
    THEN <<>>
    ELSE IF close_
      THEN <<Event("PoolClosed", "none", 0)>>
             \o CloseAllEvents(sockets, "POOL_CLOSED")
      ELSE CloseAllEvents(sockets, "STALE")
             \o (IF state # PAUSED THEN <<Event("PoolCleared", "none", 0)>>
                                   ELSE <<>>)

\* _reset_events of a reset() whose events are published also after the
\* early return of 1110-1111
_reset_events_when_closed(close_, pause) ==
  IF close_
    THEN IF closed
           THEN <<>>
           ELSE CloseAllEvents(sockets, "POOL_CLOSED")
                  \o <<Event("PoolClosed", "none", 0)>>
    ELSE (IF state # PAUSED THEN <<Event("PoolCleared", "none", 0)>>
                            ELSE <<>>)
           \o CloseAllEvents(sockets, "STALE")

\* Pool._reset 1127-1140, after the critical section: the events of the
\* call and of the close_socket of every drained connection, in their order
_reset_events(close_, pause) ==
  IF closed
    THEN <<>>
    ELSE IF close_
      THEN CloseAllEvents(sockets, "POOL_CLOSED")
             \o <<Event("PoolClosed", "none", 0)>>
      ELSE (IF state # PAUSED THEN <<Event("PoolCleared", "none", 0)>>
                              ELSE <<>>)
             \o CloseAllEvents(sockets, "STALE")

\* whether a reset() called in this state publishes PoolCleared (1137-1138)
ResetCleared ==
  Has(Publish(_reset_events(FALSE, TRUE)), "PoolCleared", "none")

\* Pool.reset 1151-1152
reset ==
  /\ _reset(FALSE, TRUE, pc)
  /\ emitted' = Publish(_reset_events(FALSE, TRUE))
  /\ UNCHANGED <<opts, requests, waiters, _pending, next_connection_id, held,
                 emitted_event, delta, maintvars, closedOnce, envvars>>

\* reset_without_pause with pause left at its default (1155)
reset_without_pause_pauses ==
  /\ _reset(FALSE, TRUE, pc)
  /\ emitted' = Publish(_reset_events(FALSE, TRUE))
  /\ UNCHANGED <<opts, requests, waiters, _pending, next_connection_id, held,
                 emitted_event, delta, maintvars, closedOnce, envvars>>

\* Pool.reset_without_pause 1154-1155
reset_without_pause ==
  /\ _reset(FALSE, FALSE, pc)
  /\ emitted' = Publish(_reset_events(FALSE, FALSE))
  /\ UNCHANGED <<opts, requests, waiters, _pending, next_connection_id, held,
                 emitted_event, delta, maintvars, closedOnce, envvars>>

\* Pool.close 1157-1158
close ==
  /\ _reset(TRUE, TRUE, pc)
  /\ emitted' = Publish(_reset_events(TRUE, TRUE))
  /\ closedOnce' = TRUE
  /\ UNCHANGED <<opts, requests, waiters, _pending, next_connection_id, held,
                 emitted_event, delta, maintvars, envvars>>

(* ---- Pool.get_socket / Pool._get_socket ------------------------------- *)
\* _raise_if_not_ready 1296-1302: whether it raises
not_ready == state # READY
\* waiters_full with the test of 1331 never true
waiters_full_never == FALSE
\* waiters_full with the comparison off by one
waiters_full_off_by_one == max_waiters # Inf /\ waiters > max_waiters
\* 1331: the wait queue is full
waiters_full == ~Lt(waiters, max_waiters)
\* size_cond_ok with the comparison off by one
size_cond_ok_off_by_one == ~Lt(max_pool_size, requests)
\* 1337, 1341: the admission predicate
size_cond_ok == Lt(requests, max_pool_size)
\* max_connecting_cond_ok with the comparison off by one
max_connecting_cond_ok_off_by_one ==
  sockets # <<>> \/ _pending <= _max_connecting
\* 1363-1364, 1368-1369: the creation predicate
max_connecting_cond_ok == sockets # <<>> \/ _pending < _max_connecting

CheckOutStarted == Event("ConnectionCheckOutStarted", "none", 0)
CheckOutFailed(reason) == Event("ConnectionCheckOutFailed", reason, 0)
CheckedOut(sock_info) == Event("ConnectionCheckedOut", "none", sock_info.id)

\* get_socket 1277-1279 and _get_socket 1308-1309 in a forked child: the
\* pid differs, so the checkout starts with reset()
_get_socket_fork(t) ==
  /\ pc[t] = "idle"
  /\ forked
  /\ _reset(FALSE, TRUE, [pc EXCEPT ![t] = "started"])
  /\ emitted' = Publish(<<CheckOutStarted>> \o _reset_events(FALSE, TRUE))
  /\ UNCHANGED <<opts, requests, waiters, _pending, next_connection_id, held,
                 emitted_event, delta, maintvars, closedOnce, envvars>>

\* get_socket 1277-1279 and _get_socket 1308-1321: the pid check (passed, or
\* followed by the reset of _get_socket_fork), the closed check (an unlocked
\* read) and the operation_count increment.  A closed pool fails the
\* checkout POOL_CLOSED.
_get_socket_begin(t) ==
  /\ \/ pc[t] = "idle" /\ ~forked
     \/ pc[t] = "started"
  /\ operation_count < MaxOperationCount
  /\ IF closed
       THEN /\ pc' = [pc EXCEPT ![t] = "idle"]
            /\ UNCHANGED operation_count
       ELSE /\ operation_count' = operation_count + 1
            /\ pc' = [pc EXCEPT ![t] = "admit"]
  /\ emitted' = Publish(
       (IF pc[t] = "idle" THEN <<CheckOutStarted>> ELSE <<>>)
         \o (IF closed THEN <<CheckOutFailed("POOL_CLOSED")>> ELSE <<>>))
  /\ delta' = [delta EXCEPT ![t] =
                 [Zero EXCEPT !.op = operation_count' - operation_count]]
  /\ UNCHANGED <<opts, state, generation, sockets, active_sockets, requests,
                 waiters, _pending, next_connection_id, forked, held,
                 emitted_event, maintvars, closedOnce, cleared, envvars>>

\* _get_socket 1329-1347, entered from the top: the admission critical
\* section up to the first wait or to requests += 1
_get_socket_admit(t) ==
  /\ pc[t] = "admit"
  /\ IF not_ready \/ waiters_full
       THEN \* pool paused (CONN_ERROR), or ExceededMaxWaiters
            /\ pc' = [pc EXCEPT ![t] = "idle"]
            /\ UNCHANGED <<waiters, requests>>
       ELSE IF size_cond_ok
         THEN \* waiters += 1; the loop is not entered; waiters -= 1
              /\ requests' = requests + 1
              /\ pc' = [pc EXCEPT ![t] = "act"]
              /\ UNCHANGED waiters
         ELSE /\ waiters' = waiters + 1
              /\ pc' = [pc EXCEPT ![t] = "adm_wait"]
              /\ UNCHANGED requests
  /\ emitted' = Publish(IF not_ready THEN <<CheckOutFailed("CONN_ERROR")>>
                                     ELSE <<>>)
  /\ UNCHANGED <<opts, state, generation, sockets, active_sockets, _pending,
                 operation_count, next_connection_id, forked, held,
                 emitted_event, maintvars, closedOnce, cleared, envvars>>
  /\ delta' = IF pc'[t] = "idle" THEN Forget(t) ELSE Track(t)

\* _get_socket 1337-1347 after size_cond.wait returned True (notified)
_get_socket_admit_woken(t) ==
  /\ pc[t] = "adm_woken"
  /\ IF not_ready
       THEN /\ waiters' = waiters - 1
            /\ pc' = [pc EXCEPT ![t] = "idle"]
            /\ UNCHANGED requests
       ELSE IF size_cond_ok
         THEN /\ waiters' = waiters - 1
              /\ requests' = requests + 1
              /\ pc' = [pc EXCEPT ![t] = "act"]
         ELSE /\ pc' = [pc EXCEPT ![t] = "adm_wait"]
              /\ UNCHANGED <<waiters, requests>>
  /\ emitted' = Publish(IF not_ready THEN <<CheckOutFailed("CONN_ERROR")>>
                                     ELSE <<>>)
  /\ cleared' = cleared \ {t}
  /\ UNCHANGED <<opts, state, generation, sockets, active_sockets, _pending,
                 operation_count, next_connection_id, forked, held,
                 emitted_event, maintvars, closedOnce, envvars>>
  /\ delta' = IF pc'[t] = "idle" THEN Forget(t) ELSE Track(t)

\* _get_socket_admit_timeout without the notify of 1341-1342
_get_socket_admit_timeout_silent(t) ==
  /\ pc[t] \in {"adm_wait", "adm_woken"}
  /\ opts.wait_queue_timeout # None
  /\ waiters' = waiters - 1
  /\ pc' = [pc EXCEPT ![t] = "idle"]
  /\ emitted' = Publish(<<CheckOutFailed("TIMEOUT")>>)
  /\ cleared' = cleared \ {t}
  /\ delta' = Forget(t)
  /\ UNCHANGED <<opts, state, generation, sockets, active_sockets, requests,
                 _pending, operation_count, next_connection_id, forked, held,
                 emitted_event, maintvars, closedOnce, envvars>>

\* _get_socket 1338-1346 after size_cond.wait timed out (_cond_wait 250-252
\* returned False): notify when the predicate holds, raise, waiters -= 1.
\* Condition.wait also returns False when its timeout expired and a notify
\* reached the waiter before it had the lock again: the thread was woken and
\* still takes this path.
_get_socket_admit_timeout(t) ==
  /\ pc[t] \in {"adm_wait", "adm_woken"}
  /\ opts.wait_queue_timeout # None
  /\ waiters' = waiters - 1
  /\ pc' \in IF size_cond_ok
               THEN NotifySize([pc EXCEPT ![t] = "idle"])
               ELSE {[pc EXCEPT ![t] = "idle"]}
  /\ emitted' = Publish(<<CheckOutFailed("TIMEOUT")>>)
  /\ cleared' = cleared \ {t}
  /\ delta' = Forget(t)
  /\ UNCHANGED <<opts, state, generation, sockets, active_sockets, requests,
                 _pending, operation_count, next_connection_id, forked, held,
                 emitted_event, maintvars, closedOnce, envvars>>

\* _get_socket 1354-1356
_get_socket_active(t) ==
  /\ pc[t] = "act"
  /\ active_sockets' = active_sockets + 1
  /\ pc' = [pc EXCEPT ![t] = "conn"]
  /\ emitted' = <<>>
  /\ UNCHANGED <<opts, state, generation, sockets, requests, waiters,
                 _pending, operation_count, next_connection_id, forked, held,
                 emitted_event, maintvars, closedOnce, cleared, envvars>>
  /\ delta' = Track(t)

\* _get_socket_connecting with creation before reuse: it pops a connection
\* only when no creation slot is free
_get_socket_connecting_prefers_creation(t) ==
  /\ pc[t] \in {"conn", "cr_woken"}
  /\ IF not_ready
       THEN /\ pc' = [pc EXCEPT ![t] = "fail"]
            /\ UNCHANGED <<sockets, _pending, held>>
       ELSE IF ~max_connecting_cond_ok
         THEN /\ pc' = [pc EXCEPT ![t] = "cr_wait"]
              /\ UNCHANGED <<sockets, _pending, held>>
         ELSE IF _pending >= _max_connecting
           THEN /\ held' = [held EXCEPT ![t] = Head(sockets)]
                /\ sockets' = Tail(sockets)
                /\ pc' = [pc EXCEPT ![t] = "got"]
                /\ UNCHANGED _pending
           ELSE /\ _pending' = _pending + 1
                /\ pc' = [pc EXCEPT ![t] = "dial"]
                /\ UNCHANGED <<sockets, held>>
  /\ emitted' = <<>>
  /\ cleared' = cleared \ {t}
  /\ UNCHANGED <<opts, state, generation, active_sockets, requests, waiters,
                 operation_count, next_connection_id, forked, emitted_event,
                 maintvars, closedOnce, envvars>>
  /\ delta' = Track(t)

\* _get_socket_connecting with sockets[0] in the place of popleft (1376):
\* the connection is handed out and stays in the idle deque
_get_socket_connecting_peeks(t) ==
  /\ pc[t] \in {"conn", "cr_woken"}
  /\ IF not_ready
       THEN /\ pc' = [pc EXCEPT ![t] = "fail"]
            /\ UNCHANGED <<_pending, held>>
       ELSE IF ~max_connecting_cond_ok
         THEN /\ pc' = [pc EXCEPT ![t] = "cr_wait"]
              /\ UNCHANGED <<_pending, held>>
         ELSE IF sockets # <<>>
           THEN /\ held' = [held EXCEPT ![t] = Head(sockets)]
                /\ pc' = [pc EXCEPT ![t] = "got"]
                /\ UNCHANGED _pending
           ELSE /\ _pending' = _pending + 1
                /\ pc' = [pc EXCEPT ![t] = "dial"]
                /\ UNCHANGED held
  /\ emitted' = <<>>
  /\ cleared' = cleared \ {t}
  /\ UNCHANGED <<opts, state, generation, sockets, active_sockets, requests,
                 waiters, operation_count, next_connection_id, forked,
                 emitted_event, maintvars, closedOnce, envvars>>
  /\ delta' = Track(t)

\* _get_socket 1361-1378: the creation critical section, entered from the
\* loop head or after _max_connecting_cond.wait returned True; both start
\* with _raise_if_not_ready(emit_event=False) (1362, 1373)
_get_socket_connecting(t) ==
  /\ pc[t] \in {"conn", "cr_woken"}
  /\ IF not_ready
       THEN /\ pc' = [pc EXCEPT ![t] = "fail"]
            /\ UNCHANGED <<sockets, _pending, held>>
       ELSE IF ~max_connecting_cond_ok
         THEN /\ pc' = [pc EXCEPT ![t] = "cr_wait"]
              /\ UNCHANGED <<sockets, _pending, held>>
         ELSE IF sockets # <<>>
           THEN /\ held' = [held EXCEPT ![t] = Head(sockets)]
                /\ sockets' = Tail(sockets)
                /\ pc' = [pc EXCEPT ![t] = "got"]
                /\ UNCHANGED _pending
           ELSE /\ _pending' = _pending + 1
                /\ pc' = [pc EXCEPT ![t] = "dial"]
                /\ UNCHANGED <<sockets, held>>
  /\ emitted' = <<>>
  /\ cleared' = cleared \ {t}
  /\ UNCHANGED <<opts, state, generation, active_sockets, requests, waiters,
                 operation_count, next_connection_id, forked, emitted_event,
                 maintvars, closedOnce, envvars>>
  /\ delta' = Track(t)

\* _get_socket 1365-1372 after _max_connecting_cond.wait timed out (also
\* when a notify reached the waiter after its timeout had expired)
_get_socket_connecting_timeout(t) ==
  /\ pc[t] \in {"cr_wait", "cr_woken"}
  /\ opts.wait_queue_timeout # None
  /\ pc' \in IF max_connecting_cond_ok
               THEN NotifyConnecting([pc EXCEPT ![t] = "fail"])
               ELSE {[pc EXCEPT ![t] = "fail"]}
  /\ emitted_event' = [emitted_event EXCEPT ![t] = TRUE]
  /\ emitted' = Publish(<<CheckOutFailed("TIMEOUT")>>)
  /\ cleared' = cleared \ {t}
  /\ UNCHANGED <<opts, poolvars, next_connection_id, forked, held, delta,
                 maintvars, closedOnce, envvars>>

\* Pool.__init__ 1044: the liveness probe is due after this idle time
_check_interval_seconds == 1

\* the arguments _perished reads: the connection's idle time
\* (idle_time_seconds 856-858) and generation, whether the probe
\* socket_closed() (833-835) would find its socket closed, and the pool's
\* generation, max_idle_time_seconds and _check_interval_seconds
PerishedArgs(sock_info, idle_time, socket_closed) ==
  [idle_time               |-> idle_time,
   socket_closed           |-> socket_closed,
   sock_generation         |-> sock_info.gen,
   pool_generation         |-> generation,
   max_idle_time_seconds   |-> opts.max_idle_time_seconds,
   _check_interval_seconds |-> _check_interval_seconds]

\* _perished 1457-1458: the connection has been idle for too long
idle_exceeded(a) ==
  a.max_idle_time_seconds # None /\ a.idle_time > a.max_idle_time_seconds

\* _perished 1462-1464: the liveness probe socket_closed() is due
probe_due(a) ==
  /\ a._check_interval_seconds # None
  /\ \/ 0 = a._check_interval_seconds
     \/ a.idle_time > a._check_interval_seconds

\* _perished 1469: the connection is of another generation than the pool
generation_outdated(a) == a.sock_generation # a.pool_generation

\* _perished with the generation test of 1469-1471 before the probe of
\* 1462-1467
_perished_generation_first(a) ==
  IF a.max_idle_time_seconds # None
       /\ a.idle_time > a.max_idle_time_seconds
    THEN "IDLE"
  ELSE IF a.sock_generation # a.pool_generation
    THEN "STALE"
  ELSE IF /\ a._check_interval_seconds # None
          /\ \/ 0 = a._check_interval_seconds
             \/ a.idle_time > a._check_interval_seconds
          /\ a.socket_closed
    THEN "ERROR"
  ELSE "none"

\* _perished without the idle test of 1457-1460
_perished_never_idle(a) ==
  IF /\ a._check_interval_seconds # None
     /\ \/ 0 = a._check_interval_seconds
        \/ a.idle_time > a._check_interval_seconds
     /\ a.socket_closed
    THEN "ERROR"
  ELSE IF a.sock_generation # a.pool_generation
    THEN "STALE"
  ELSE "none"

\* Pool._perished 1441-1473: the reason it closes the connection with, or
\* "none" when it returns False
_perished(a) ==
  IF a.max_idle_time_seconds # None
       /\ a.idle_time > a.max_idle_time_seconds
    THEN "IDLE"
  ELSE IF /\ a._check_interval_seconds # None
          /\ \/ 0 = a._check_interval_seconds
             \/ a.idle_time > a._check_interval_seconds
          /\ a.socket_closed
    THEN "ERROR"
  ELSE IF a.sock_generation # a.pool_generation
    THEN "STALE"
  ELSE "none"

\* _get_socket 1379-1382 and 1390: the perishability check of a reused
\* connection, outside the lock, then check_auth (which publishes nothing
\* for a connection that is ready) and the CheckedOut of get_socket 1283-1285
_get_socket_reuse(t) ==
  /\ pc[t] = "got"
  /\ \E idle_time \in 0..MaxIdleTime, socket_closed \in BOOLEAN,
        auth_ok \in BOOLEAN :
       LET reason == _perished(PerishedArgs(held[t], idle_time, socket_closed))
       IN IF reason # "none"
            THEN /\ auth_ok
                 /\ held' = [held EXCEPT ![t] = NoConn]
                 /\ pc' = [pc EXCEPT ![t] = "conn"]
                 /\ emitted' = Publish(CloseSocketEvents(held[t], reason))
            ELSE IF auth_ok
              THEN /\ pc' = [pc EXCEPT ![t] = "held"]
                   /\ emitted' = Publish(<<CheckedOut(held[t])>>)
                   /\ UNCHANGED held
              ELSE \* check_auth raised: 1392-1394 closes the connection
                   /\ held' = [held EXCEPT ![t] = NoConn]
                   /\ pc' = [pc EXCEPT ![t] = "fail"]
                   /\ emitted' = Publish(CloseSocketEvents(held[t], "ERROR"))
  /\ UNCHANGED <<opts, poolvars, next_connection_id, forked, emitted_event,
                 delta, maintvars, closedOnce, cleared, envvars>>

\* connect with the id of 1222 taken again by the next call (no increment
\* of 1223 seen)
connect_reuses_id(ok) ==
  IF ok THEN [id |-> 1, gen |-> generation,
              closed |-> FALSE, reason |-> "none"]
        ELSE NoConn

\* Pool.connect 1213-1252: the id is allocated under the lock (1221-1223);
\* then the dial, SocketInfo.__init__ (which reads pool.generation, 525),
\* the handshake and check_auth either all succeed (ok) or one of them raises
connect(ok) ==
  IF ok THEN [id |-> next_connection_id, gen |-> generation,
              closed |-> FALSE, reason |-> "none"]
        ELSE NoConn

\* how a call of Pool.connect ends: it returns the connection ("ok"); the
\* dial raises (1229-1238); the handshake command raises a network error,
\* which SocketInfo.command turns into close_socket(ERROR) (688-689, 860-876);
\* the handshake command raises OperationFailure, which SocketInfo.command
\* re-raises as it is (685-686) and connect does not catch (1242-1244 are
\* outside every try); or check_auth raises (1246-1250)
ConnectOutcomes == {"ok", "dial", "handshake", "refused", "auth"}

\* connect_events with the ConnectionReady of check_auth published before
\* the credentials are authenticated (780-783 ahead of 776-778)
connect_events_ready_first(outcome) ==
  <<Event("ConnectionCreated", "none", next_connection_id)>>
    \o (IF outcome = "ok"
          THEN <<Event("ConnectionReady", "none", next_connection_id)>>
        ELSE IF outcome = "refused"
          THEN <<>>
        ELSE IF outcome = "auth"
          THEN <<Event("ConnectionReady", "none", next_connection_id),
                 Event("ConnectionClosed", "ERROR", next_connection_id)>>
        ELSE <<Event("ConnectionClosed", "ERROR", next_connection_id)>>)

\* Pool.connect 1225-1250: ConnectionCreated, then ConnectionReady from
\* check_auth (780-783), or ConnectionClosed ERROR from the failed dial
\* (1232-1234) or from close_socket after a network error of the handshake
\* or a failed login, or nothing more after a refused handshake
connect_events(outcome) ==
  <<Event("ConnectionCreated", "none", next_connection_id)>>
    \o (IF outcome = "ok"
          THEN <<Event("ConnectionReady", "none", next_connection_id)>>
        ELSE IF outcome = "refused"
          THEN <<>>
        ELSE <<Event("ConnectionClosed", "ERROR", next_connection_id)>>)

\* _get_socket 1384-1385: connect() called by a checkout
_get_socket_connect(t) ==
  /\ pc[t] = "dial"
  /\ next_connection_id <= MaxConnectionId
  /\ \E outcome \in ConnectOutcomes :
       /\ held' = [held EXCEPT ![t] = connect(outcome = "ok")]
       /\ emitted' = Publish(connect_events(outcome))
  /\ next_connection_id' = next_connection_id + 1
  /\ pc' = [pc EXCEPT ![t] = "dialed"]
  /\ UNCHANGED <<opts, state, generation, sockets, active_sockets, requests,
                 waiters, _pending, operation_count, forked, emitted_event,
                 delta, maintvars, closedOnce, cleared, envvars>>

\* _get_socket 1386-1390: the finally after connect(), then check_auth on
\* the new connection (a no-op: connect() authenticated it), the return and
\* the CheckedOut of get_socket 1283-1285
_get_socket_connected(t) ==
  /\ pc[t] = "dialed"
  /\ _pending' = _pending - 1
  /\ pc' \in NotifyConnecting(
               [pc EXCEPT ![t] = IF held[t] = NoConn THEN "fail" ELSE "held"])
  /\ emitted' = Publish(IF held[t] = NoConn THEN <<>>
                                            ELSE <<CheckedOut(held[t])>>)
  /\ UNCHANGED <<opts, state, generation, sockets, active_sockets, requests,
                 waiters, operation_count, next_connection_id, forked, held,
                 emitted_event, maintvars, closedOnce, cleared, envvars>>
  /\ delta' = Track(t)

\* _get_socket 1391-1404: the except block
_get_socket_unwind(t) ==
  /\ pc[t] = "fail"
  /\ requests' = requests - 1
  /\ active_sockets' = active_sockets - 1
  /\ pc' \in NotifySize([pc EXCEPT ![t] = "idle"])
  /\ emitted' = Publish(IF emitted_event[t]
                          THEN <<>>
                          ELSE <<CheckOutFailed("CONN_ERROR")>>)
  /\ emitted_event' = [emitted_event EXCEPT ![t] = FALSE]
  /\ delta' = Forget(t)
  /\ UNCHANGED <<opts, state, generation, sockets, waiters, _pending,
                 operation_count, next_connection_id, forked, held, maintvars,
                 closedOnce, cleared, envvars>>

(* ---- the caller's use of the connection, Pool.return_socket ----------- *)
\* SocketInfo.close_socket 810-817 by the holder of the connection, as
\* SocketInfo.command does on a network error (685-689)
close_socket(t) ==
  /\ pc[t] = "held"
  /\ ~held[t].closed
  /\ held' = [held EXCEPT ![t] = CloseSocket(held[t], "ERROR")]
  /\ emitted' = Publish(CloseSocketEvents(held[t], "ERROR"))
  /\ UNCHANGED <<opts, poolvars, next_connection_id, forked, pc,
                 emitted_event, delta, maintvars, closedOnce, cleared,
                 envvars>>

CheckedIn(sock_info) == Event("ConnectionCheckedIn", "none", sock_info.id)

\* return_socket 1414-1418 in a forked child: the pid differs, so the
\* connection is dropped and the pool reset
return_socket_fork(t) ==
  /\ pc[t] = "held"
  /\ forked
  /\ _reset(FALSE, TRUE, [pc EXCEPT ![t] = "ci_rel"])
  /\ emitted' = Publish(<<CheckedIn(held[t])>> \o _reset_events(FALSE, TRUE))
  /\ UNCHANGED <<opts, requests, waiters, _pending, next_connection_id, held,
                 emitted_event, delta, maintvars, closedOnce, envvars>>

\* return_socket_begin without the check of self.closed
return_socket_begin_unchecked(t) ==
  /\ pc[t] = "held"
  /\ ~forked
  /\ pc' = [pc EXCEPT ![t] = IF held[t].closed THEN "ci_rel" ELSE "ci_push"]
  /\ emitted' = Publish(<<CheckedIn(held[t])>>)
  /\ UNCHANGED <<opts, poolvars, next_connection_id, forked, held,
                 emitted_event, delta, maintvars, closedOnce, cleared,
                 envvars>>

\* return_socket_begin without the close_socket(POOL_CLOSED) of 1421
return_socket_begin_discards(t) ==
  /\ pc[t] = "held"
  /\ ~forked
  /\ pc' = [pc EXCEPT ![t] =
              IF closed \/ held[t].closed THEN "ci_rel" ELSE "ci_push"]
  /\ emitted' = Publish(<<CheckedIn(held[t])>>)
  /\ UNCHANGED <<opts, poolvars, next_connection_id, forked, held,
                 emitted_event, delta, maintvars, closedOnce, cleared,
                 envvars>>

\* return_socket 1414-1422: CheckedIn, the pid check (passed), and the
\* unlocked reads of self.closed and sock_info.closed
return_socket_begin(t) ==
  /\ pc[t] = "held"
  /\ ~forked
  /\ IF closed
       THEN /\ held' = [held EXCEPT ![t] = CloseSocket(held[t], "POOL_CLOSED")]
            /\ pc' = [pc EXCEPT ![t] = "ci_rel"]
            /\ emitted' = Publish(<<CheckedIn(held[t])>>
                            \o CloseSocketEvents(held[t], "POOL_CLOSED"))
       ELSE /\ pc' = [pc EXCEPT ![t] =
                        IF held[t].closed THEN "ci_rel" ELSE "ci_push"]
            /\ emitted' = Publish(<<CheckedIn(held[t])>>)
            /\ UNCHANGED held
  /\ UNCHANGED <<opts, poolvars, next_connection_id, forked, emitted_event,
                 delta, maintvars, closedOnce, cleared, envvars>>

\* stale with the comparison of 1426 true only for a newer connection
stale_if_newer(sock_info) == sock_info.gen > generation
\* stale without the comparison of the generations
stale_never(sock_info) == FALSE
\* return_socket 1426: the connection is of an older generation
stale(sock_info) == sock_info.gen # generation

\* return_socket_checkin with append in the place of appendleft (1431)
return_socket_checkin_appends(t) ==
  /\ pc[t] = "ci_push"
  /\ IF stale(held[t])
       THEN /\ held' = [held EXCEPT ![t] = CloseSocket(held[t], "STALE")]
            /\ pc' = [pc EXCEPT ![t] = "ci_rel"]
            /\ emitted' = Publish(CloseSocketEvents(held[t], "STALE"))
            /\ UNCHANGED sockets
       ELSE /\ sockets' = sockets \o <<held[t]>>
            /\ held' = [held EXCEPT ![t] = NoConn]
            /\ pc' \in NotifyConnecting([pc EXCEPT ![t] = "ci_rel"])
            /\ emitted' = <<>>
  /\ UNCHANGED <<opts, state, generation, active_sockets, requests, waiters,
                 _pending, operation_count, next_connection_id, forked,
                 emitted_event, delta, maintvars, closedOnce, cleared,
                 envvars>>

\* return_socket 1423-1433
return_socket_checkin(t) ==
  /\ pc[t] = "ci_push"
  /\ IF stale(held[t])
       THEN /\ held' = [held EXCEPT ![t] = CloseSocket(held[t], "STALE")]
            /\ pc' = [pc EXCEPT ![t] = "ci_rel"]
            /\ emitted' = Publish(CloseSocketEvents(held[t], "STALE"))
            /\ UNCHANGED sockets
       ELSE /\ sockets' = <<held[t]>> \o sockets
            /\ held' = [held EXCEPT ![t] = NoConn]
            /\ pc' \in NotifyConnecting([pc EXCEPT ![t] = "ci_rel"])
            /\ emitted' = <<>>
  /\ UNCHANGED <<opts, state, generation, active_sockets, requests, waiters,
                 _pending, operation_count, next_connection_id, forked,
                 emitted_event, delta, maintvars, closedOnce, cleared,
                 envvars>>

\* return_socket_release without active_sockets -= 1
return_socket_release_keeps_active(t) ==
  /\ pc[t] = "ci_rel"
  /\ requests' = requests - 1
  /\ operation_count' = operation_count - 1
  /\ held' = [held EXCEPT ![t] = NoConn]
  /\ pc' \in NotifySize([pc EXCEPT ![t] = "idle"])
  /\ emitted' = <<>>
  /\ UNCHANGED <<opts, state, generation, sockets, active_sockets, waiters,
                 _pending, next_connection_id, forked, emitted_event,
                 maintvars, closedOnce, cleared, envvars>>
  /\ delta' = Track(t)

\* return_socket 1435-1439
return_socket_release(t) ==
  /\ pc[t] = "ci_rel"
  /\ requests' = requests - 1
  /\ active_sockets' = active_sockets - 1
  /\ operation_count' = operation_count - 1
  /\ held' = [held EXCEPT ![t] = NoConn]
  /\ pc' \in NotifySize([pc EXCEPT ![t] = "idle"])
  /\ emitted' = <<>>
  /\ UNCHANGED <<opts, state, generation, sockets, waiters, _pending,
                 next_connection_id, forked, emitted_event, maintvars,
                 closedOnce, cleared, envvars>>
  /\ delta' = Track(t)

(* ---- Pool.remove_stale_sockets (the maintenance thread) --------------- *)
\* the caller takes reference_generation from the pool when it requests the
\* operation (docstring 1161-1164), then calls
remove_stale_sockets_call ==
  /\ mpc = "m_idle"
  /\ mref' = generation
  /\ mpc' = "m_chk"
  /\ emitted' = <<>>
  /\ UNCHANGED <<opts, poolvars, next_connection_id, forked, pc, held,
                 emitted_event, delta, mconn, mcont, closedOnce, cleared, envvars>>

\* remove_stale_sockets 1166-1169: the unlocked read of the state; the idle
\* prune (1170-1174) is skipped when max_idle_time_seconds is None
remove_stale_sockets_begin ==
  /\ mpc = "m_chk"
  /\ IF state # READY
       THEN mpc' = "m_idle" /\ mref' = 0
       ELSE /\ mpc' = IF opts.max_idle_time_seconds # None
                        THEN "m_prune" ELSE "m_admit"
            /\ UNCHANGED mref
  /\ emitted' = <<>>
  /\ UNCHANGED <<opts, poolvars, next_connection_id, forked, pc, held,
                 emitted_event, delta, mconn, mcont, closedOnce, cleared, envvars>>

\* 1179-1180: there are enough sockets in the pool
enough_sockets == Len(sockets) + active_sockets >= opts.min_pool_size
\* requests_full never holding: min-fill without the admission gate
requests_full_never == FALSE
\* 1182
requests_full == requests >= opts.min_pool_size
\* pending_full never holding: min-fill without the creation throttle
pending_full_never == FALSE
\* 1190
pending_full == _pending >= _max_connecting

\* remove_stale_sockets 1177-1184
remove_stale_sockets_admit ==
  /\ mpc = "m_admit"
  /\ IF enough_sockets \/ requests_full
       THEN mpc' = "m_idle" /\ mref' = 0 /\ UNCHANGED requests
       ELSE mpc' = "m_pend" /\ requests' = requests + 1 /\ UNCHANGED mref
  /\ emitted' = <<>>
  /\ UNCHANGED <<opts, state, generation, sockets, active_sockets, waiters,
                 _pending, operation_count, next_connection_id, forked, pc, held,
                 emitted_event,
                 delta, mconn, mcont, closedOnce, cleared, envvars>>

\* remove_stale_sockets 1187-1193: return (through the finally, with
\* incremented False) when maxConnecting creations are in flight
remove_stale_sockets_pending ==
  /\ mpc = "m_pend"
  /\ IF pending_full
       THEN mpc' = "m_rel" /\ UNCHANGED _pending
       ELSE mpc' = "m_dial" /\ _pending' = _pending + 1
  /\ emitted' = <<>>
  /\ UNCHANGED <<opts, state, generation, sockets, active_sockets, requests,
                 waiters, operation_count, next_connection_id, forked, pc, held,
                 emitted_event,
                 delta, mref, mconn, mcont, closedOnce, cleared, envvars>>

\* remove_stale_sockets 1194: connect(); when it raises, the finally runs
\* and the error propagates
remove_stale_sockets_connect ==
  /\ mpc = "m_dial"
  /\ next_connection_id <= MaxConnectionId
  /\ \E outcome \in ConnectOutcomes :
       /\ mconn' = connect(outcome = "ok")
       /\ mpc' = IF outcome = "ok" THEN "m_push" ELSE "m_unpend"
       /\ emitted' = Publish(connect_events(outcome))
  /\ next_connection_id' = next_connection_id + 1
  /\ UNCHANGED <<opts, state, generation, sockets, active_sockets, requests,
                 waiters, _pending, operation_count, forked, pc, held,
                 emitted_event, delta, mref,
                 mcont, closedOnce, cleared, envvars>>

\* reset_during_creation never holding: min-fill without the generation test
reset_during_creation_never == FALSE
\* 1198: the pool was reset during the creation
reset_during_creation == generation # mref

\* remove_stale_sockets 1195-1201
remove_stale_sockets_add ==
  /\ mpc = "m_push"
  /\ IF reset_during_creation
       THEN /\ mcont' = FALSE
            /\ emitted' = Publish(CloseSocketEvents(mconn, "STALE"))
            /\ UNCHANGED sockets
       ELSE /\ mcont' = TRUE
            /\ emitted' = <<>>
            /\ sockets' = <<mconn>> \o sockets
  /\ mconn' = NoConn
  /\ mpc' = "m_unpend"
  /\ UNCHANGED <<opts, state, generation, active_sockets, requests, waiters,
                 _pending, operation_count, next_connection_id, forked, pc, held,
                 emitted_event,
                 delta, mref, closedOnce, cleared, envvars>>

\* remove_stale_sockets 1203-1207: the finally, first critical section
remove_stale_sockets_unpend ==
  /\ mpc = "m_unpend"
  /\ _pending' = _pending - 1
  /\ pc' \in NotifyConnecting(pc)
  /\ mpc' = "m_rel"
  /\ emitted' = <<>>
  /\ UNCHANGED <<opts, state, generation, sockets, active_sockets, requests,
                 waiters, operation_count, next_connection_id, forked, held,
                 emitted_event, delta,
                 mref, mconn, mcont, closedOnce, cleared, envvars>>

\* remove_stale_sockets 1209-1211: the finally, second critical section;
\* then the next round of the while loop, or the return
remove_stale_sockets_release ==
  /\ mpc = "m_rel"
  /\ requests' = requests - 1
  /\ pc' \in NotifySize(pc)
  /\ IF mcont
       THEN mpc' = "m_admit" /\ UNCHANGED mref
       ELSE mpc' = "m_idle" /\ mref' = 0
  /\ mcont' = FALSE
  /\ emitted' = <<>>
  /\ UNCHANGED <<opts, state, generation, sockets, active_sockets, waiters,
                 _pending, operation_count, next_connection_id, forked, held,
                 emitted_event, delta,
                 mconn, closedOnce, cleared, envvars>>

\* the units of requests (1184 until 1210) and of _pending (1192 until 1206)
\* that remove_stale_sockets holds at position p
maintenance_requests(p) ==
  IF p \in {"m_pend", "m_dial", "m_push", "m_unpend", "m_rel"} THEN 1 ELSE 0
maintenance_pending(p) ==
  IF p \in {"m_dial", "m_push", "m_unpend"} THEN 1 ELSE 0

(* ---- os.fork() --------------------------------------------------------- *)
\* os.fork() called by caller thread t between two pool calls: the model
\* follows the child.  The child has a copy of the pool as it is, with the
\* parent's pid in Pool.pid; of the parent's threads only t exists in it, so
\* every other caller thread is a thread the child has yet to start and the
\* maintenance thread is not inside remove_stale_sockets.
fork(t) ==
  /\ ~forked
  /\ pc[t] \in {"idle", "held"}
  /\ forked' = TRUE
  /\ pc' = [u \in Threads |-> IF u = t THEN pc[t] ELSE "idle"]
  /\ held' = [u \in Threads |-> IF u = t THEN held[t] ELSE NoConn]
  /\ emitted_event' = [u \in Threads |-> FALSE]
  /\ delta' = [u \in Threads |-> IF u = t THEN delta[t] ELSE Zero]
  /\ mpc' = "m_idle"
  /\ mref' = 0
  /\ mconn' = NoConn
  /\ mcont' = FALSE
  /\ emitted' = <<>>
  /\ cleared' = {}
  /\ UNCHANGED <<opts, poolvars, next_connection_id, closedOnce, envvars>>

(* ---- Pool._perished on its own ---------------------------------------- *)
\* the connections and pools _perished is applied to
PerishedArgsSet ==
  [idle_time               : 0..MaxIdleTime,
   socket_closed           : BOOLEAN,
   sock_generation         : 0..MaxGeneration,
   pool_generation         : 0..MaxGeneration,
   max_idle_time_seconds   : {None} \cup 0..MaxIdleTime,
   _check_interval_seconds : {None, 0, _check_interval_seconds}]

InitPerished == InitWith({PoolOptions(1, 1, None)}, PerishedArgsSet)

\* Pool._perished 1441-1473 applied to p_args
_perished_call ==
  /\ p_result = "unset"
  /\ p_result' = _perished(p_args)
  /\ UNCHANGED <<opts, poolvars, next_connection_id, forked, pc, held,
                 emitted_event, delta, maintvars, emitted, closedOnce,
                 cleared, p_args, lock, lpc, old_state, is_writable,
                 scope, timevars>>

(* ---- the specifications ------------------------------------------------ *)
Next ==
  \/ ready
  \/ reset
  \/ reset_without_pause
  \/ close
  \/ \E t \in Threads : _get_socket_begin(t)
  \/ \E t \in Threads : _get_socket_admit(t)
  \/ \E t \in Threads : _get_socket_admit_woken(t)
  \/ \E t \in Threads : _get_socket_admit_timeout(t)
  \/ \E t \in Threads : _get_socket_active(t)
  \/ \E t \in Threads : _get_socket_connecting(t)
  \/ \E t \in Threads : _get_socket_connecting_timeout(t)
  \/ \E t \in Threads : _get_socket_reuse(t)
  \/ \E t \in Threads : _get_socket_connect(t)
  \/ \E t \in Threads : _get_socket_connected(t)
  \/ \E t \in Threads : _get_socket_unwind(t)
  \/ \E t \in Threads : close_socket(t)
  \/ \E t \in Threads : return_socket_begin(t)
  \/ \E t \in Threads : return_socket_checkin(t)
  \/ \E t \in Threads : return_socket_release(t)
  \/ remove_stale_sockets_call
  \/ remove_stale_sockets_begin
  \/ remove_stale_sockets_admit
  \/ remove_stale_sockets_pending
  \/ remove_stale_sockets_connect
  \/ remove_stale_sockets_add
  \/ remove_stale_sockets_unpend
  \/ remove_stale_sockets_release

\* a pool without listeners in a process that does not fork
Spec == Init /\ [][Next]_vars

\* the pool with CMAP event listeners
InitEvents == InitWith(PoolOptionsEvents, {NoArgs})
SpecEvents == InitEvents /\ [][Next]_vars

\* the pool with CMAP event listeners: with a bound on the waiters
\* (waitQueueMultiple 1, max_pool_size 1), and with two callers admitted
\* that compete for the one creation slot
InitWaiters ==
  InitWith({WithListeners(PoolOptions(1, 1, 1), TRUE),
            WithListeners(PoolOptions(2, 1, None), TRUE)}, {NoArgs})
SpecWaiters == InitWaiters /\ [][Next]_vars

\* the process forks
InitFork == InitWith(PoolOptionsFork, {NoArgs})
NextFork ==
  \/ Next
  \/ \E t \in Threads : fork(t)
  \/ \E t \in Threads : _get_socket_fork(t)
  \/ \E t \in Threads : return_socket_fork(t)
SpecFork == InitFork /\ [][NextFork]_vars

\* Pool._perished applied to every connection of PerishedArgsSet
NextPerished == _perished_call
SpecPerished == InitPerished /\ [][NextPerished]_vars

\* A thread that is inside a pool method and not blocked in a wait goes on:
\* the lock is held for one critical section at a time.  Nothing makes a
\* caller start a checkout, give a connection back or close it, nothing
\* bounds the time a wait takes to time out, and connect() may block for
\* ever.
Running(t) ==
  \/ _get_socket_admit(t)
  \/ _get_socket_admit_woken(t)
  \/ _get_socket_active(t)
  \/ _get_socket_connecting(t)
  \/ _get_socket_reuse(t)
  \/ _get_socket_connected(t)
  \/ _get_socket_unwind(t)
  \/ return_socket_checkin(t)
  \/ return_socket_release(t)
RunningMaintenance ==
  \/ remove_stale_sockets_begin
  \/ remove_stale_sockets_admit
  \/ remove_stale_sockets_pending
  \/ remove_stale_sockets_add
  \/ remove_stale_sockets_unpend
  \/ remove_stale_sockets_release
Fairness ==
  /\ \A t \in Threads : WF_vars(Running(t))
  /\ WF_vars(RunningMaintenance)
InitLive == InitWith(PoolOptionsLive, {NoArgs})
SpecLive == InitLive /\ [][Next]_vars /\ Fairness

\* the callers and the min-fill of a pool that stays READY, under the same
\* fairness: nobody calls ready(), reset() or close(), and no caller closes
\* its connection
InitWake == InitWith({WithListeners(PoolOptions(3, 3, None), FALSE)}, {NoArgs})
NextWake ==
  \/ \E t \in Threads : _get_socket_begin(t)
  \/ \E t \in Threads : _get_socket_admit(t)
  \/ \E t \in Threads : _get_socket_active(t)
  \/ \E t \in Threads : _get_socket_connecting(t)
  \/ \E t \in Threads : _get_socket_connecting_timeout(t)
  \/ \E t \in Threads : _get_socket_reuse(t)
  \/ \E t \in Threads : _get_socket_connect(t)
  \/ \E t \in Threads : _get_socket_connected(t)
  \/ \E t \in Threads : _get_socket_unwind(t)
  \/ \E t \in Threads : return_socket_begin(t)
  \/ \E t \in Threads : return_socket_checkin(t)
  \/ \E t \in Threads : return_socket_release(t)
  \/ remove_stale_sockets_call
  \/ remove_stale_sockets_begin
  \/ remove_stale_sockets_admit
  \/ remove_stale_sockets_pending
  \/ remove_stale_sockets_connect
  \/ remove_stale_sockets_add
  \/ remove_stale_sockets_unpend
  \/ remove_stale_sockets_release
SpecWake == InitWake /\ [][NextWake]_vars /\ Fairness

(* ---- the lock: who holds Pool.lock when a field is written ------------- *)
\* size_cond and _max_connecting_cond are Conditions on Pool.lock (1049,
\* 1078, 1088): "with self.lock", "with self.size_cond" and
\* "with self._max_connecting_cond" all acquire the one lock.
\* what no step of SpecLock changes
LockFrame ==
  UNCHANGED <<opts, active_sockets, requests, waiters, _pending,
              next_connection_id, forked, pc, held, emitted_event, delta,
              maintvars, emitted, closedOnce, cleared, p_args, p_result,
              scope, timevars>>

\* A thread's step of SpecLock: th moves from position from to position to
Step(th, from, to) ==
  /\ lpc[th] = from
  /\ lpc' = [lpc EXCEPT ![th] = to]
  /\ LockFrame

\* __enter__ of the lock: th blocks until the lock is free
Acquire(th, from, to) ==
  /\ Step(th, from, to)
  /\ lock = "none"
  /\ lock' = th
  /\ UNCHANGED <<state, generation, sockets, operation_count, old_state,
                 is_writable>>

\* Pool.ready 1098, right-hand side: self.state is read
ready_read ==
  /\ Step("ready", "idle", "swap")
  /\ old_state' = [old_state EXCEPT !["ready"] = state]
  /\ UNCHANGED <<state, generation, sockets, operation_count, lock,
                 is_writable>>

\* Pool.ready 1098, left-hand side: self.state is written; no lock is taken
ready_write ==
  /\ Step("ready", "swap", "idle")
  /\ state' = READY
  /\ UNCHANGED <<generation, sockets, operation_count, lock, old_state,
                 is_writable>>

\* Pool._reset 1108: old_state is read before the lock is taken
_reset_read(th) ==
  /\ Step(th, "idle", "enter")
  /\ old_state' = [old_state EXCEPT ![th] = state]
  /\ UNCHANGED <<state, generation, sockets, operation_count, lock,
                 is_writable>>

\* Pool._reset 1109: with self.size_cond
_reset_enter(th) ==
  /\ generation < MaxGeneration
  /\ Acquire(th, "enter", "in")

\* Pool._reset 1110-1113 under the lock: the early return of a CLOSED pool
\* (the lock is released), or the pause
_reset_pause(th) ==
  /\ lpc[th] = "in"
  /\ lock = th
  /\ LockFrame
  /\ IF closed
       THEN /\ lpc' = [lpc EXCEPT ![th] = "idle"]
            /\ lock' = "none"
            /\ UNCHANGED <<state, old_state>>
       ELSE /\ lpc' = [lpc EXCEPT ![th] = "bump"]
            /\ UNCHANGED lock
            /\ IF opts.pause_enabled
                 THEN /\ old_state' = [old_state EXCEPT ![th] = state]
                      /\ state' = PAUSED
                 ELSE UNCHANGED <<state, old_state>>
  /\ UNCHANGED <<generation, sockets, operation_count, is_writable>>

\* Pool._reset 1114-1125 under the lock: the generation, the deque, the
\* state of a close, the notify_all; the lock is released
_reset_bump(th) ==
  /\ Step(th, "bump", "idle")
  /\ lock = th
  /\ generation' = generation + 1
  /\ sockets' = <<>>
  /\ state' = IF th = "close" THEN CLOSED ELSE state
  /\ lock' = "none"
  /\ UNCHANGED <<operation_count, old_state, is_writable>>

\* Pool.connect 1221-1243: the id, the dial and the handshake
connect_handshake ==
  /\ Step("connect", "idle", "shaken")
  /\ UNCHANGED <<state, generation, sockets, operation_count, lock,
                 old_state, is_writable>>

\* the values of ismaster.is_writable, a bool: False is 0 and True is 1
\* (the field is None until the first of them is written, 1054)
IsWritable == {0, 1}

\* Pool.connect 1244: self.is_writable is written; no lock is taken
connect_is_writable ==
  /\ Step("connect", "shaken", "idle")
  /\ \E w \in IsWritable : is_writable' = w
  /\ UNCHANGED <<state, generation, sockets, operation_count, lock,
                 old_state>>

\* Pool.update_is_writable 1146: self.is_writable is written before the
\* lock is taken
update_is_writable_write ==
  /\ Step("update_is_writable", "idle", "enter")
  /\ \E w \in IsWritable : is_writable' = w
  /\ UNCHANGED <<state, generation, sockets, operation_count, lock,
                 old_state>>

\* Pool.update_is_writable 1147
update_is_writable_enter ==
  /\ lpc["update_is_writable"] = "enter"
  /\ Acquire("update_is_writable", "enter", "in")

\* Pool.update_is_writable 1148-1149 under the lock: the connections of the
\* deque are given the flag; the lock is released
update_is_writable_sockets ==
  /\ Step("update_is_writable", "in", "idle")
  /\ lock = "update_is_writable"
  /\ lock' = "none"
  /\ UNCHANGED <<state, generation, sockets, operation_count, old_state,
                 is_writable>>

\* Pool._get_socket 1320: with self.lock
_get_socket_enter ==
  /\ operation_count < MaxOperationCount
  /\ Acquire("_get_socket", "idle", "in")

\* Pool._get_socket 1321 under the lock: operation_count += 1; the lock is
\* released
_get_socket_count ==
  /\ Step("_get_socket", "in", "idle")
  /\ lock = "_get_socket"
  /\ operation_count' = operation_count + 1
  /\ lock' = "none"
  /\ UNCHANGED <<state, generation, sockets, old_state, is_writable>>

InitLock == InitWith({PoolOptions(1, 1, None)}, {NoArgs})
NextLock ==
  \/ ready_read
  \/ ready_write
  \/ \E th \in {"reset", "close"} : _reset_read(th)
  \/ \E th \in {"reset", "close"} : _reset_enter(th)
  \/ \E th \in {"reset", "close"} : _reset_pause(th)
  \/ \E th \in {"reset", "close"} : _reset_bump(th)
  \/ connect_handshake
  \/ connect_is_writable
  \/ update_is_writable_write
  \/ update_is_writable_enter
  \/ update_is_writable_sockets
  \/ _get_socket_enter
  \/ _get_socket_count
SpecLock == InitLock /\ [][NextLock]_vars

(* ---- get_socket: the with block of the caller -------------------------- *)
\* what the steps of the with block leave alone
ScopeFrame ==
  UNCHANGED <<opts, poolvars, next_connection_id, forked, pc, held,
              emitted_event, delta, maintvars, closedOnce, cleared, p_args,
              p_result, lock, lpc, old_state, is_writable, timevars>>

\* get_socket 1254-1281 called with checkout=False or checkout=True: the
\* call of _get_socket
get_socket_call(t) ==
  /\ scope[t].at = "out"
  /\ _get_socket_begin(t)

\* get_socket 1286-1287: _get_socket has returned the connection and the
\* generator yields it to the with block
get_socket_yield(t) ==
  /\ pc[t] = "held"
  /\ scope[t].at = "out"
  /\ \E checkout \in BOOLEAN :
       scope' = [scope EXCEPT ![t] = [at |-> "block", checkout |-> checkout,
                                      raised |-> FALSE]]
  /\ emitted' = <<>>
  /\ ScopeFrame

\* get_socket_raise with the except clause of 1288-1291 left out
get_socket_raise_keeps(t) ==
  /\ scope[t].at = "block"
  /\ scope' = [scope EXCEPT ![t].at = "kept", ![t].raised = TRUE]
  /\ emitted' = <<>>
  /\ ScopeFrame

\* get_socket 1288-1291: the with block raises; return_socket is called and
\* the exception goes on
get_socket_raise(t) ==
  /\ scope[t].at = "block"
  /\ scope' = [scope EXCEPT ![t].at = "return", ![t].raised = TRUE]
  /\ emitted' = <<>>
  /\ ScopeFrame

\* get_socket 1292-1294: the with block ends normally; return_socket is
\* called unless checkout was set
get_socket_exit(t) ==
  /\ scope[t].at = "block"
  /\ scope' = [scope EXCEPT ![t].at =
                 IF scope[t].checkout THEN "kept" ELSE "return"]
  /\ emitted' = <<>>
  /\ ScopeFrame

\* get_socket 1290, 1294: the call of return_socket
get_socket_return(t) ==
  /\ scope[t].at = "return"
  /\ return_socket_begin(t)

\* return_socket called later by the owner of a connection that get_socket
\* left checked out (checkout=True)
return_socket_later(t) ==
  /\ scope[t].at = "kept"
  /\ return_socket_begin(t)

\* return_socket has returned: the thread is out of get_socket
get_socket_end(t) ==
  /\ scope[t].at \in {"return", "kept"}
  /\ pc[t] = "idle"
  /\ scope' = [scope EXCEPT ![t] = OutOfScope]
  /\ emitted' = <<>>
  /\ ScopeFrame

InitScope == InitWith({WithListeners(PoolOptions(1, 1, None), TRUE)}, {NoArgs})
NextScope ==
  \/ ready
  \/ reset
  \/ close
  \/ \E t \in Threads : get_socket_call(t)
  \/ \E t \in Threads : _get_socket_admit(t)
  \/ \E t \in Threads : _get_socket_admit_woken(t)
  \/ \E t \in Threads : _get_socket_admit_timeout(t)
  \/ \E t \in Threads : _get_socket_active(t)
  \/ \E t \in Threads : _get_socket_connecting(t)
  \/ \E t \in Threads : _get_socket_reuse(t)
  \/ \E t \in Threads : _get_socket_connect(t)
  \/ \E t \in Threads : _get_socket_connected(t)
  \/ \E t \in Threads : _get_socket_unwind(t)
  \/ \E t \in Threads : get_socket_yield(t)
  \/ \E t \in Threads : close_socket(t)
  \/ \E t \in Threads : get_socket_raise(t)
  \/ \E t \in Threads : get_socket_exit(t)
  \/ \E t \in Threads : get_socket_return(t)
  \/ \E t \in Threads : return_socket_later(t)
  \/ \E t \in Threads : return_socket_checkin(t)
  \/ \E t \in Threads : return_socket_release(t)
  \/ \E t \in Threads : get_socket_end(t)
SpecScope == InitScope /\ [][NextScope]_vars

(* ---- idle time: the clock, last_checkin_time and the idle prune -------- *)
\* seconds of time.monotonic() that the clock of SpecIdle runs through
MaxClock == 2

\* the options of SpecIdle: maxIdleTimeMS of one second, CMAP listeners, no
\* pause (the pool starts READY), and a min-fill of two connections
WithMaxIdle(options, seconds) ==
  [options EXCEPT !.max_idle_time_seconds = seconds]
PoolOptionsIdle ==
  {WithMaxIdle(WithListeners(PoolOptions(2, 2, None), FALSE), 1)}

\* what the steps that read or write the time leave alone
TimeFrame ==
  UNCHANGED <<p_args, p_result, lock, lpc, old_state, is_writable, scope>>

\* SocketInfo.idle_time_seconds 856-858
idle_time_seconds(sock_info) == now - last_checkin_time[sock_info.id]

\* time.monotonic() advances by a second
time_passes ==
  /\ now < MaxClock
  /\ now' = now + 1
  /\ emitted' = <<>>
  /\ TimeFrame
  /\ UNCHANGED <<opts, poolvars, next_connection_id, forked, pc, held,
                 emitted_event, delta, maintvars, closedOnce, cleared,
                 last_checkin_time>>

\* _get_socket 1384-1385: connect() called by a checkout; SocketInfo.__init__
\* sets last_checkin_time to the time of the creation (503)
_get_socket_connect_at(t) ==
  /\ pc[t] = "dial"
  /\ next_connection_id <= MaxConnectionId
  /\ \E outcome \in ConnectOutcomes :
       /\ held' = [held EXCEPT ![t] = connect(outcome = "ok")]
       /\ emitted' = Publish(connect_events(outcome))
  /\ last_checkin_time' =
       [last_checkin_time EXCEPT ![next_connection_id] = now]
  /\ next_connection_id' = next_connection_id + 1
  /\ pc' = [pc EXCEPT ![t] = "dialed"]
  /\ TimeFrame
  /\ UNCHANGED <<opts, state, generation, sockets, active_sockets, requests,
                 waiters, _pending, operation_count, forked, emitted_event,
                 delta, maintvars, closedOnce, cleared, now>>

\* _get_socket 1379-1382 and 1390 with the idle time that _perished reads
\* from the clock (1455)
_get_socket_reuse_at(t) ==
  /\ pc[t] = "got"
  /\ \E socket_closed \in BOOLEAN, auth_ok \in BOOLEAN :
       LET reason == _perished(PerishedArgs(held[t],
                                            idle_time_seconds(held[t]),
                                            socket_closed))
       IN IF reason # "none"
            THEN /\ auth_ok
                 /\ held' = [held EXCEPT ![t] = NoConn]
                 /\ pc' = [pc EXCEPT ![t] = "conn"]
                 /\ emitted' = Publish(CloseSocketEvents(held[t], reason))
            ELSE IF auth_ok
              THEN /\ pc' = [pc EXCEPT ![t] = "held"]
                   /\ emitted' = Publish(<<CheckedOut(held[t])>>)
                   /\ UNCHANGED held
              ELSE /\ held' = [held EXCEPT ![t] = NoConn]
                   /\ pc' = [pc EXCEPT ![t] = "fail"]
                   /\ emitted' = Publish(CloseSocketEvents(held[t], "ERROR"))
  /\ UNCHANGED <<opts, poolvars, next_connection_id, forked, emitted_event,
                 delta, maintvars, closedOnce, cleared, envvars>>

\* return_socket 1423-1433 with update_last_checkin_time (1429, 850-851)
return_socket_checkin_at(t) ==
  /\ pc[t] = "ci_push"
  /\ IF stale(held[t])
       THEN /\ held' = [held EXCEPT ![t] = CloseSocket(held[t], "STALE")]
            /\ pc' = [pc EXCEPT ![t] = "ci_rel"]
            /\ emitted' = Publish(CloseSocketEvents(held[t], "STALE"))
            /\ UNCHANGED <<sockets, last_checkin_time>>
       ELSE /\ last_checkin_time' =
                 [last_checkin_time EXCEPT ![held[t].id] = now]
            /\ sockets' = <<held[t]>> \o sockets
            /\ held' = [held EXCEPT ![t] = NoConn]
            /\ pc' \in NotifyConnecting([pc EXCEPT ![t] = "ci_rel"])
            /\ emitted' = <<>>
  /\ TimeFrame
  /\ UNCHANGED <<opts, state, generation, active_sockets, requests, waiters,
                 _pending, operation_count, next_connection_id, forked,
                 emitted_event, delta, maintvars, closedOnce, cleared, now>>

\* remove_stale_sockets 1171-1173: the connections that the prune pops from
\* the back of the deque, the first popped first
RECURSIVE Popped(_)
Popped(socks) ==
  IF socks # <<>>
       /\ idle_time_seconds(socks[Len(socks)]) > opts.max_idle_time_seconds
    THEN <<socks[Len(socks)]>> \o Popped(SubSeq(socks, 1, Len(socks) - 1))
    ELSE <<>>

\* remove_stale_sockets 1169-1174: the idle prune, one critical section
remove_stale_sockets_prune ==
  /\ mpc = "m_prune"
  /\ sockets' = SubSeq(sockets, 1, Len(sockets) - Len(Popped(sockets)))
  /\ emitted' = Publish(CloseAllEvents(Popped(sockets), "IDLE"))
  /\ mpc' = "m_admit"
  /\ UNCHANGED <<opts, state, generation, active_sockets, requests, waiters,
                 _pending, operation_count, next_connection_id, forked, pc,
                 held, emitted_event, delta, mref, mconn, mcont, closedOnce,
                 cleared, envvars>>

\* remove_stale_sockets 1194: connect() called by the min-fill
remove_stale_sockets_connect_at ==
  /\ mpc = "m_dial"
  /\ next_connection_id <= MaxConnectionId
  /\ \E outcome \in ConnectOutcomes :
       /\ mconn' = connect(outcome = "ok")
       /\ mpc' = IF outcome = "ok" THEN "m_push" ELSE "m_unpend"
       /\ emitted' = Publish(connect_events(outcome))
  /\ last_checkin_time' =
       [last_checkin_time EXCEPT ![next_connection_id] = now]
  /\ next_connection_id' = next_connection_id + 1
  /\ TimeFrame
  /\ UNCHANGED <<opts, state, generation, sockets, active_sockets, requests,
                 waiters, _pending, operation_count, forked, pc, held,
                 emitted_event, delta, mref, mcont, closedOnce, cleared,
                 now>>

InitIdle == InitWith(PoolOptionsIdle, {NoArgs})
NextIdle ==
  \/ time_passes
  \/ reset
  \/ \E t \in Threads : _get_socket_begin(t)
  \/ \E t \in Threads : _get_socket_admit(t)
  \/ \E t \in Threads : _get_socket_admit_woken(t)
  \/ \E t \in Threads : _get_socket_admit_timeout(t)
  \/ \E t \in Threads : _get_socket_active(t)
  \/ \E t \in Threads : _get_socket_connecting(t)
  \/ \E t \in Threads : _get_socket_connecting_timeout(t)
  \/ \E t \in Threads : _get_socket_reuse_at(t)
  \/ \E t \in Threads : _get_socket_connect_at(t)
  \/ \E t \in Threads : _get_socket_connected(t)
  \/ \E t \in Threads : _get_socket_unwind(t)
  \/ \E t \in Threads : return_socket_begin(t)
  \/ \E t \in Threads : return_socket_checkin_at(t)
  \/ \E t \in Threads : return_socket_release(t)
  \/ remove_stale_sockets_call
  \/ remove_stale_sockets_begin
  \/ remove_stale_sockets_prune
  \/ remove_stale_sockets_admit
  \/ remove_stale_sockets_pending
  \/ remove_stale_sockets_connect_at
  \/ remove_stale_sockets_add
  \/ remove_stale_sockets_unpend
  \/ remove_stale_sockets_release
SpecIdle == InitIdle /\ [][NextIdle]_vars

(* ---- the lock around connect(): checkout and min-fill -------------------- *)
\* what the steps of a caller's checkout and of the min-fill leave alone
\* when they are followed lock by lock
DialFrame ==
  UNCHANGED <<opts, state, generation, operation_count, waiters, forked, pc,
              held, emitted_event, delta, mpc, mref, mcont, emitted,
              closedOnce, cleared, p_args, p_result, scope, timevars,
              old_state, is_writable>>

\* the end of a with block on the lock: th does its locked work, moves from
\* position from to position to and releases the lock
Release(th, from, to) ==
  /\ lpc[th] = from
  /\ lock = th
  /\ lpc' = [lpc EXCEPT ![th] = to]
  /\ lock' = "none"
  /\ DialFrame

\* a step of th that takes place outside every with block on the lock
Outside(th, from, to) ==
  /\ lpc[th] = from
  /\ lpc' = [lpc EXCEPT ![th] = to]
  /\ UNCHANGED lock
  /\ DialFrame

\* the with statements of _get_socket (1329, 1354, 1361, 1387, 1395),
\* return_socket (1435) and connect (1221), by the position before and the
\* position inside
GetSocketWith ==
  {<<"idle", "size">>, <<"admitted", "active">>, <<"throttle", "section">>,
   <<"connect", "id">>, <<"dialed_ok", "finally_ok">>,
   <<"dialed_failed", "finally_failed">>, <<"failed", "except">>,
   <<"held", "return">>}
\* the with statements of remove_stale_sockets (1177, 1187, 1195, 1205,
\* 1209) and connect (1221)
RemoveStaleSocketsWith ==
  {<<"idle", "size">>, <<"admitted", "section">>, <<"connect", "id">>,
   <<"dialed_ok", "push">>, <<"unpend", "finally">>,
   <<"release", "finally_size">>}

\* the threads that call connect(): a caller and the maintenance thread
Creators == {"_get_socket", "remove_stale_sockets"}

\* __enter__ of one of these with statements
dial_enter(th, with) ==
  /\ lpc[th] = with[1]
  /\ Acquire(th, with[1], with[2])
  /\ UNCHANGED mconn

\* _get_socket 1329-1347 under the lock: a free slot is taken (the pool is
\* READY and the waiters are not bounded); Condition.wait releases the lock
\* and the thread is back before the with statement
_get_socket_size ==
  /\ IF Lt(requests, max_pool_size)
       THEN /\ Release("_get_socket", "size", "admitted")
            /\ requests' = requests + 1
       ELSE /\ Release("_get_socket", "size", "idle")
            /\ UNCHANGED requests
  /\ UNCHANGED <<active_sockets, _pending, sockets, next_connection_id,
                 mconn>>

\* _get_socket 1354-1356
_get_socket_incremented ==
  /\ Release("_get_socket", "active", "throttle")
  /\ active_sockets' = active_sockets + 1
  /\ UNCHANGED <<requests, _pending, sockets, next_connection_id, mconn>>

\* the creation section without _pending += 1: a dial with no reservation
_get_socket_section_unreserved ==
  /\ IF ~max_connecting_cond_ok
       THEN Release("_get_socket", "section", "throttle")
       ELSE IF sockets # <<>>
         THEN Release("_get_socket", "section", "held")
         ELSE Release("_get_socket", "section", "connect")
  /\ sockets' = IF max_connecting_cond_ok /\ sockets # <<>>
                  THEN Tail(sockets) ELSE sockets
  /\ UNCHANGED <<requests, active_sockets, _pending, next_connection_id, mconn>>
\* _get_socket 1361-1378 under the lock: the wait (the lock is released),
\* the popleft, or the reservation of a creation slot
_get_socket_section ==
  /\ IF ~max_connecting_cond_ok
       THEN /\ Release("_get_socket", "section", "throttle")
            /\ UNCHANGED <<sockets, _pending>>
       ELSE IF sockets # <<>>
         THEN /\ Release("_get_socket", "section", "held")
              /\ sockets' = Tail(sockets)
              /\ UNCHANGED _pending
         ELSE /\ Release("_get_socket", "section", "connect")
              /\ _pending' = _pending + 1
              /\ UNCHANGED sockets
  /\ UNCHANGED <<requests, active_sockets, next_connection_id, mconn>>

\* connect 1221-1223 under the lock: the id
connect_id(th) ==
  /\ next_connection_id <= MaxConnectionId
  /\ Release(th, "id", "dialing")
  /\ next_connection_id' = next_connection_id + 1
  /\ mconn' = IF th = "remove_stale_sockets"
                THEN [id |-> next_connection_id, gen |-> generation,
                      closed |-> FALSE, reason |-> "none"]
                ELSE mconn
  /\ UNCHANGED <<requests, active_sockets, _pending, sockets>>

\* connect 1225-1252: the dial, the handshake and the authentication; the
\* connection is returned or an exception is raised
connect_dial(th) ==
  /\ \E ok \in BOOLEAN :
       Outside(th, "dialing", IF ok THEN "dialed_ok" ELSE "dialed_failed")
  /\ UNCHANGED <<requests, active_sockets, _pending, sockets,
                 next_connection_id, mconn>>

\* _get_socket 1386-1390 under the lock: the finally after connect(); then
\* the connection is returned, or the except block starts
_get_socket_finally ==
  /\ \/ Release("_get_socket", "finally_ok", "held")
     \/ Release("_get_socket", "finally_failed", "failed")
  /\ _pending' = _pending - 1
  /\ UNCHANGED <<requests, active_sockets, sockets, next_connection_id, mconn>>

\* _get_socket 1395-1399 under the lock: the except block; and
\* return_socket 1435-1439 under the lock, for a connection that its holder
\* has closed (1420-1422 push nothing)
_get_socket_release ==
  /\ \/ Release("_get_socket", "except", "idle")
     \/ Release("_get_socket", "return", "idle")
  /\ requests' = requests - 1
  /\ active_sockets' = active_sockets - 1
  /\ UNCHANGED <<_pending, sockets, next_connection_id, mconn>>

\* remove_stale_sockets 1177-1184 under the lock (the pool is READY, 1166,
\* and max_idle_time_seconds is None, 1169)
remove_stale_sockets_size ==
  /\ IF enough_sockets \/ requests_full
       THEN /\ Release("remove_stale_sockets", "size", "idle")
            /\ UNCHANGED requests
       ELSE /\ Release("remove_stale_sockets", "size", "admitted")
            /\ requests' = requests + 1
  /\ UNCHANGED <<active_sockets, _pending, sockets, next_connection_id,
                 mconn>>

\* remove_stale_sockets 1187-1193 under the lock
remove_stale_sockets_section ==
  /\ IF pending_full
       THEN /\ Release("remove_stale_sockets", "section", "release")
            /\ UNCHANGED _pending
       ELSE /\ Release("remove_stale_sockets", "section", "connect")
            /\ _pending' = _pending + 1
  /\ UNCHANGED <<requests, active_sockets, sockets, next_connection_id,
                 mconn>>

\* remove_stale_sockets 1194 raised: the finally starts
remove_stale_sockets_raised ==
  /\ Outside("remove_stale_sockets", "dialed_failed", "unpend")
  /\ mconn' = NoConn
  /\ UNCHANGED <<requests, active_sockets, _pending, sockets,
                 next_connection_id>>

\* remove_stale_sockets 1195-1201 under the lock
remove_stale_sockets_push ==
  /\ Release("remove_stale_sockets", "push", "unpend")
  /\ sockets' = IF generation # mref THEN sockets ELSE <<mconn>> \o sockets
  /\ mconn' = NoConn
  /\ UNCHANGED <<requests, active_sockets, _pending, next_connection_id>>

\* remove_stale_sockets 1203-1207 under the lock
remove_stale_sockets_finally ==
  /\ Release("remove_stale_sockets", "finally", "release")
  /\ _pending' = _pending - 1
  /\ UNCHANGED <<requests, active_sockets, sockets, next_connection_id, mconn>>

\* remove_stale_sockets 1209-1211 under the lock
remove_stale_sockets_finally_size ==
  /\ Release("remove_stale_sockets", "finally_size", "idle")
  /\ requests' = requests - 1
  /\ UNCHANGED <<active_sockets, _pending, sockets, next_connection_id, mconn>>

\* the positions at which a thread is inside connect()
InConnect == {"connect", "id", "dialing", "dialed_ok", "dialed_failed"}
\* the positions at which a thread holds a unit of _pending (1378 to 1388,
\* 1192 to 1206), and those at which it holds a unit of requests (1347 to
\* 1396 or 1436, 1184 to 1210)
HoldsPending ==
  InConnect \cup {"finally_ok", "finally_failed", "push", "unpend", "finally"}
HoldsRequest ==
  HoldsPending \cup {"admitted", "active", "throttle", "section", "held",
                     "return", "failed", "except", "release", "finally_size"}

InitDial ==
  InitWith({WithListeners(PoolOptions(2, 2, None), FALSE)}, {NoArgs})
NextDial ==
  \/ \E with \in GetSocketWith : dial_enter("_get_socket", with)
  \/ \E with \in RemoveStaleSocketsWith :
       dial_enter("remove_stale_sockets", with)
  \/ _get_socket_size
  \/ _get_socket_incremented
  \/ _get_socket_section
  \/ \E th \in Creators : connect_id(th)
  \/ \E th \in Creators : connect_dial(th)
  \/ _get_socket_finally
  \/ _get_socket_release
  \/ remove_stale_sockets_size
  \/ remove_stale_sockets_section
  \/ remove_stale_sockets_raised
  \/ remove_stale_sockets_push
  \/ remove_stale_sockets_finally
  \/ remove_stale_sockets_finally_size
  \/ update_is_writable_write
  \/ update_is_writable_enter
  \/ update_is_writable_sockets
SpecDial == InitDial /\ [][NextDial]_vars

(* ---- the claims -------------------------------------------------------- *)
\* the caller threads inside connect() or between connect() and the finally
\* that gives the creation slot back: each is counted in active_sockets and
\* in _pending
Dialing == {t \in Threads : pc[t] \in {"dial", "dialed"}}
\* the caller threads that passed the admission wait and have not released
\* their request slot yet
PastAdmission ==
  {t \in Threads : pc[t] \in {"act", "conn", "cr_wait", "got", "dial",
                              "cr_woken", "dialed", "fail", "held",
                              "ci_push", "ci_rel"}}
\* the caller threads between the start of a checkout and the end of its
\* checkin (or of its failure)
InOperation == {t \in Threads : pc[t] # "idle"}

\* C1 as stated: in every reachable state active_sockets + _pending is at
\* most maxPoolSize, also while a checkout thread that passed admission is
\* dialing a new connection.
C1_ActivePlusPending ==
  max_pool_size # Inf => active_sockets + _pending <= max_pool_size

\* C1 as amended: with minPoolSize <= maxPoolSize, active_sockets + _pending
\* less the checkout threads that are dialing (each of which is counted in
\* both) is at most maxPoolSize in every reachable state.
C1_ActivePlusPendingOnce ==
  (max_pool_size # Inf /\ opts.min_pool_size <= max_pool_size)
    => active_sockets + _pending - Cardinality(Dialing) <= max_pool_size
\* a checkout thread dials while every slot of the pool is taken
C1_Witness ==
  /\ max_pool_size # Inf
  /\ opts.min_pool_size <= max_pool_size
  /\ Dialing # {}
  /\ active_sockets + _pending - Cardinality(Dialing) = max_pool_size

\* C2: in every reachable state _pending, the creations of checkout threads
\* and of maintenance together, is at most maxConnecting.
C2_PendingAtMostMaxConnecting == _pending <= _max_connecting
\* one checkout thread dials and another one waits for the creation slot
C2_Witness ==
  /\ _pending = _max_connecting
  /\ \E t \in Threads, u \in Threads :
       t # u /\ pc[t] = "dial" /\ pc[u] = "cr_wait"

\* C3: once the pool state is CLOSED no step changes it again.
C3_ClosedIsTerminal == [][state = CLOSED => state' = CLOSED]_vars

\* C4: after close() has returned, every checkout that starts fails with
\* the pool-closed error (the thread does not get past the closed check) and
\* no connection is created (no ConnectionCreated event) by a checkout or by
\* maintenance.
C4_NoCheckoutAfterClose ==
  [][closedOnce =>
       /\ \A t \in Threads :
            /\ pc[t] = "idle" => pc'[t] = "idle"
            /\ ~(pc[t] = "dial" /\ pc'[t] = "dialed")
       /\ ~(mpc = "m_dial" /\ mpc' # "m_dial")]_vars

\* C5 as stated: whenever the pool state is PAUSED or CLOSED the idle deque
\* is empty.
C5_EmptyWhenPausedOrClosed == state \in {PAUSED, CLOSED} => sockets = <<>>

\* C5 as amended: whenever the pool state is CLOSED the idle deque is empty,
\* also after the checkin of a connection whose dial overlapped the close().
C5_EmptyWhenClosed == state = CLOSED => sockets = <<>>
\* a connection was checked in on the CLOSED pool
C5_Witness ==
  /\ state = CLOSED
  /\ \E t \in Threads : pc[t] = "ci_rel" /\ held[t].reason = "POOL_CLOSED"

\* C6: every connection in the idle deque has the pool's current generation.
C6_IdleGenerationCurrent ==
  \A i \in DOMAIN sockets : sockets[i].gen = generation
\* after a reset the deque holds a connection again, and a connection of the
\* generation before was refused at checkin
C6_Witness ==
  /\ generation > 0
  /\ sockets # <<>>
  /\ \E t \in Threads : pc[t] = "ci_rel" /\ held[t].reason = "STALE"

\* C7: operation_count always equals the number of threads between a started
\* checkout and the end of its checkin: a checkout that fails leaves
\* operation_count at its value before the call.
C7_OperationCountIsThreadsInOperation ==
  operation_count = Cardinality(InOperation)

\* C8: a checkout followed by the checkin of the connection has changed
\* none of requests, active_sockets, operation_count, waiters and _pending:
\* the thread's net change to each of them is zero when it is back idle.
C8_RoundTripNetZero == \A t \in Threads : pc[t] = "idle" => delta[t] = Zero
\* a healthy connection of the current generation was pushed back on the
\* deque, and the thread is about to release its counters
C8_Witness ==
  \E t \in Threads :
    /\ pc[t] = "ci_rel"
    /\ held[t] = NoConn
    /\ sockets # <<>>
    /\ delta[t] = [req |-> 1, act |-> 1, op |-> 1, wait |-> 0, pend |-> 0]

\* C9: with minPoolSize <= maxPoolSize = N, requests is at most N and at
\* most N caller threads are past the admission wait (hold or are getting a
\* connection): a further checkout is not admitted.
C9_AtMostMaxPoolSizeAdmitted ==
  (max_pool_size # Inf /\ opts.min_pool_size <= max_pool_size)
    => /\ requests <= max_pool_size
       /\ Cardinality(PastAdmission) <= max_pool_size
\* maxPoolSize = 1: one thread holds the connection, the other is blocked in
\* the admission wait
C9_Witness ==
  /\ max_pool_size = 1
  /\ opts.min_pool_size <= max_pool_size
  /\ \E t \in Threads, u \in Threads :
       t # u /\ pc[t] = "held" /\ pc[u] = "adm_wait"

\* C10: waiters is at most maxWaiters = maxPoolSize * waitQueueMultiple when
\* both are configured (and unbounded otherwise).
C10_WaitersAtMostMaxWaiters == max_waiters # Inf => waiters <= max_waiters
\* the wait queue is full and a further checkout arrives
C10_Witness ==
  /\ max_waiters # Inf
  /\ waiters = max_waiters
  /\ \E t \in Threads : pc[t] = "admit"


C13_ForkedChildStartsFromZero ==
  [][\A t \in Threads :
       (forked /\ ~closed /\ pc[t] = "idle" /\ pc'[t] = "started")
         => /\ ~forked'
            /\ sockets' = <<>>
            /\ active_sockets' = 0
            /\ operation_count' = 0
            /\ requests' = 0
            /\ waiters' = 0
            /\ _pending' = 0]_vars

\* C14 as stated: a reset() of a pool that is not CLOSED adds one to the
\* generation, publishes PoolCleared exactly if the pool was not PAUSED,
\* and a reset() that follows it publishes no PoolCleared.
C14_TwoResetsOneCleared ==
  [][(reset /\ ~closed)
       => /\ generation' = generation + 1
          /\ Has(emitted', "PoolCleared", "none") <=> state # PAUSED
          /\ ~ResetCleared']_vars

\* C14 as amended: the generation and the PoolCleared of the first reset()
\* are as stated; a reset() that follows it publishes no PoolCleared when
\* pause_enabled is set, and publishes a second PoolCleared when
\* pause_enabled is not set and the pool was not PAUSED.
C14_TwoResetsOneClearedWhenPausing ==
  [][(reset /\ ~closed)
       => /\ generation' = generation + 1
          /\ Has(emitted', "PoolCleared", "none") <=> state # PAUSED
          /\ opts.pause_enabled => state' = PAUSED /\ ~ResetCleared'
          /\ (~opts.pause_enabled /\ state # PAUSED) => ResetCleared']_vars
\* two resets of a pool that nothing else has used: the pool is PAUSED at
\* generation 2 and the second reset published nothing
C14_Witness ==
  /\ opts.pause_enabled
  /\ generation = 2
  /\ state = PAUSED
  /\ emitted = <<>>
  /\ operation_count = 0
  /\ next_connection_id = 1
  /\ mpc = "m_idle"

\* C15: close() on a pool that is already CLOSED changes neither the state,
\* the generation, the idle deque nor any counter, and publishes no event.
C15_CloseIsIdempotent ==
  [][(close /\ closed)
       => /\ UNCHANGED <<state, generation, sockets, active_sockets,
                         requests, waiters, _pending, operation_count,
                         next_connection_id>>
          /\ emitted' = <<>>]_vars
\* close() was called on a pool that close() had closed: the pool is CLOSED
\* at the generation of the first close and the call published nothing
C15_Witness ==
  /\ closed
  /\ closedOnce
  /\ generation = 1
  /\ emitted = <<>>
  /\ operation_count = 0
  /\ next_connection_id = 1
  /\ mpc = "m_idle"

C17_DrainEventOrder ==
  [][/\ (close /\ ~closed)
          => /\ Len(emitted') = Len(sockets) + 1
             /\ emitted'[Len(emitted')] = Event("PoolClosed", "none", 0)
             /\ \A i \in DOMAIN sockets :
                  emitted'[i] =
                    Event("ConnectionClosed", "POOL_CLOSED", sockets[i].id)
     /\ ((reset \/ reset_without_pause) /\ ~closed)
          => LET first == IF state # PAUSED THEN 1 ELSE 0
             IN  /\ Len(emitted') = Len(sockets) + first
                 /\ first = 1
                      => emitted'[1] = Event("PoolCleared", "none", 0)
                 /\ \A i \in DOMAIN sockets :
                      emitted'[first + i] =
                        Event("ConnectionClosed", "STALE", sockets[i].id)]_vars
\* close() has just drained one idle connection: its ConnectionClosed comes
\* before the PoolClosed
C17_Witness ==
  /\ closed
  /\ Len(emitted) = 2
  /\ emitted[1].name = "ConnectionClosed"
  /\ emitted[1].reason = "POOL_CLOSED"
  /\ emitted[2] = Event("PoolClosed", "none", 0)

\* C18 as stated: a connection over the idle limit is closed with IDLE,
\* whatever its generation and its socket; one within the idle limit that
\* is of another generation and whose socket the due probe finds closed is
\* closed with STALE.
C18_IdleGenerationLiveness ==
  p_result # "unset"
    => /\ idle_exceeded(p_args) => p_result = "IDLE"
       /\ (/\ ~idle_exceeded(p_args)
           /\ generation_outdated(p_args)
           /\ probe_due(p_args)
           /\ p_args.socket_closed) => p_result = "STALE"

\* C18 as amended: idle time is tested first, the liveness of the socket
\* second and the generation last.  Over the idle limit: IDLE; else, the
\* probe being due and the socket closed: ERROR, also for a connection of
\* another generation; else, of another generation: STALE; else the
\* connection is kept.
C18_IdleLivenessGeneration ==
  p_result # "unset"
    => /\ idle_exceeded(p_args) => p_result = "IDLE"
       /\ (/\ ~idle_exceeded(p_args)
           /\ probe_due(p_args)
           /\ p_args.socket_closed) => p_result = "ERROR"
       /\ (/\ ~idle_exceeded(p_args)
           /\ ~(probe_due(p_args) /\ p_args.socket_closed)
           /\ generation_outdated(p_args)) => p_result = "STALE"
       /\ (/\ ~idle_exceeded(p_args)
           /\ ~(probe_due(p_args) /\ p_args.socket_closed)
           /\ ~generation_outdated(p_args)) => p_result = "none"
\* _perished was applied to a connection within the idle limit, of another
\* generation, whose socket the due probe found closed
C18_Witness ==
  /\ p_result = "ERROR"
  /\ ~idle_exceeded(p_args)
  /\ generation_outdated(p_args)
  /\ probe_due(p_args)
  /\ p_args.socket_closed

\* C19: next_connection_id never decreases, a step that makes a connection
\* gives it the id next_connection_id had and adds one to it, and at any
\* moment the open connections (held by a checkout, held by the maintenance
\* thread, or idle in the deque) have ids below next_connection_id that
\* differ from one another.
C19_ConnectionIdsIncrease ==
  /\ [][/\ next_connection_id' >= next_connection_id
        /\ \A t \in Threads :
             (pc[t] = "dial" /\ pc'[t] = "dialed" /\ held'[t] # NoConn)
               => /\ held'[t].id = next_connection_id
                  /\ next_connection_id' = next_connection_id + 1]_vars
  /\ [](/\ \A t \in Threads : held[t].id < next_connection_id
        /\ mconn.id < next_connection_id
        /\ \A i \in DOMAIN sockets : sockets[i].id \in 1..(next_connection_id - 1)
        /\ \A i, j \in DOMAIN sockets : i # j => sockets[i].id # sockets[j].id
        /\ \A t, u \in Threads :
             (t # u /\ held[t].id > 0) => held[t].id # held[u].id
        /\ \A t \in Threads, i \in DOMAIN sockets :
             (pc[t] \in {"dialed", "held"}) => held[t].id # sockets[i].id
        /\ \A t \in Threads :
             (held[t].id > 0 /\ mconn.id > 0) => held[t].id # mconn.id)
\* two checkouts hold the two connections that were made, with ids 1 and 2
C19_Witness ==
  /\ next_connection_id = 3
  /\ \E t, u \in Threads :
       /\ pc[t] = "held" /\ held[t].id = 1 /\ ~held[t].closed
       /\ pc[u] = "held" /\ held[u].id = 2 /\ ~held[u].closed

\* C20: a checkout that reaches the admission critical section of a READY
\* pool while waiters >= maxWaiters leaves it at once, refused: it enters no
\* wait and it leaves waiters, requests and active_sockets as they were.
C20_ExceededMaxWaitersIsImmediate ==
  [][\A t \in Threads :
       (/\ pc[t] = "admit"
        /\ pc'[t] # "admit"
        /\ state = READY
        /\ max_waiters # Inf
        /\ waiters >= max_waiters)
         => /\ pc'[t] = "idle"
            /\ UNCHANGED <<waiters, requests, active_sockets>>]_vars
\* a checkout was refused while the other thread filled the wait queue: it
\* is back outside the pool, its operation counted, the queue still full
C20_Witness ==
  /\ state = READY
  /\ max_waiters # Inf
  /\ waiters = max_waiters
  /\ generation = 0
  /\ operation_count = 2
  /\ \E t, u \in Threads : pc[t] = "idle" /\ pc[u] = "adm_wait"

C22_IdleDequeIsLifo ==
  [][/\ \A t \in Threads :
          /\ (pc[t] = "ci_push" /\ pc'[t] # "ci_push"
                /\ held[t].gen = generation)
               => sockets' = <<held[t]>> \o sockets
          /\ (pc[t] \in {"conn", "cr_woken"} /\ pc'[t] = "got")
               => /\ sockets # <<>>
                  /\ held'[t] = Head(sockets)
                  /\ sockets' = Tail(sockets)
          /\ (pc[t] = "got" /\ pc'[t] = "held")
               => /\ held'[t] = held[t]
                  /\ emitted' = <<Event("ConnectionCheckedOut", "none",
                                        held[t].id)>>
                  /\ next_connection_id' = next_connection_id
     /\ (mpc = "m_push" /\ mpc' # "m_push" /\ generation = mref)
          => sockets' = <<mconn>> \o sockets]_vars
\* of two connections that were both checked in, a checkout has just reused
\* the one checked in last (connection 2, put in front of connection 1)
C22_Witness ==
  /\ next_connection_id = 3
  /\ Len(sockets) = 1
  /\ sockets[1].id = 1
  /\ emitted = <<Event("ConnectionCheckedOut", "none", 2)>>
  /\ \E t, u \in Threads :
       /\ pc[t] = "held" /\ held[t].id = 2
       /\ pc[u] = "idle"

\* C23 as stated: a call of connect() that fails (it hands no connection to
\* the checkout or to the maintenance thread that called it) publishes,
\* after its ConnectionCreated, exactly one ConnectionClosed ERROR with the
\* same id.
C23_FailedConnectIsClosed ==
  [][\A i \in DOMAIN emitted' :
       (/\ emitted'[i].name = "ConnectionCreated"
        /\ \A t \in Threads : held'[t].id # emitted'[i].id
        /\ mconn'.id # emitted'[i].id)
         => /\ Cardinality({j \in DOMAIN emitted' :
                              emitted'[j] = Event("ConnectionClosed", "ERROR",
                                                  emitted'[i].id)}) = 1
            /\ \E j \in DOMAIN emitted' :
                 j > i /\ emitted'[j] = Event("ConnectionClosed", "ERROR",
                                              emitted'[i].id)]_vars

\* C24 as stated: a step that changes the state, the generation, the idle
\* deque, is_writable or a counter is a step of a thread that holds the
\* lock when it takes it.
C24_WritesHoldTheLock ==
  [][(<<state, generation, sockets, is_writable, operation_count>>'
        # <<state, generation, sockets, is_writable, operation_count>>)
       => \E th \in LockThreads : lpc'[th] # lpc[th] /\ lock = th]_vars

\* C25: when the with block of a successful get_socket ends, return_socket
\* is called exactly if the block raised or checkout was not set; with
\* checkout set and no exception the connection stays with the thread and
\* nothing is published.  A call of return_socket publishes one
\* ConnectionCheckedIn, is made by a thread whose block has ended, and its
\* steps leave requests, active_sockets and operation_count alone but for
\* the last, which takes one from each.
C25_ScopedRelease ==
  /\ [][\A t \in Threads :
          /\ (scope[t].at = "block" /\ scope'[t].at # "block")
               => /\ scope'[t].at = "return"
                       <=> (scope'[t].raised \/ ~scope[t].checkout)
                  /\ scope'[t].at = "kept"
                       <=> (~scope'[t].raised /\ scope[t].checkout)
                  /\ pc'[t] = "held"
                  /\ emitted' = <<>>
          /\ (pc[t] = "held" /\ pc'[t] # "held")
               => /\ scope[t].at \in {"return", "kept"}
                  /\ Cardinality({i \in DOMAIN emitted' :
                       emitted'[i].name = "ConnectionCheckedIn"}) = 1
          /\ (scope[t].at = "return" /\ pc'[t] # pc[t])
               => IF pc'[t] = "idle"
                    THEN /\ requests' = requests - 1
                         /\ active_sockets' = active_sockets - 1
                         /\ operation_count' = operation_count - 1
                    ELSE UNCHANGED <<requests, active_sockets,
                                     operation_count>>]_vars
  /\ [](\A t \in Threads :
          scope[t].at = "return"
            => pc[t] \in {"held", "ci_push", "ci_rel", "idle"})
\* a with block entered with checkout=True raised, and return_socket has
\* given the connection back
C25_Witness ==
  \E t \in Threads :
    /\ scope[t] = [at |-> "return", checkout |-> TRUE, raised |-> TRUE]
    /\ pc[t] = "idle"
    /\ held[t] = NoConn
    /\ requests = 0
    /\ active_sockets = 0

\* C26: reset_without_pause() on a pool that is not CLOSED adds one to the
\* generation, empties the idle deque, publishes one ConnectionClosed STALE
\* for every connection that was in it, wakes the waiting threads and
\* leaves the state as it was.  A woken thread that runs while the pool is
\* READY goes on with its checkout or waits again; it fails only if its
\* wait has timed out.
C26_ResetWithoutPauseKeepsState ==
  [][/\ (reset_without_pause /\ ~closed)
          => /\ generation' = generation + 1
             /\ sockets' = <<>>
             /\ state' = state
             /\ \A i \in DOMAIN sockets :
                  \E j \in DOMAIN emitted' :
                    emitted'[j] =
                      Event("ConnectionClosed", "STALE", sockets[i].id)
             /\ \A t \in Threads :
                  /\ pc[t] = "adm_wait" => pc'[t] = "adm_woken"
                  /\ pc[t] = "cr_wait" => pc'[t] = "cr_woken"
     /\ \A t \in Threads :
          /\ (pc[t] = "adm_woken" /\ pc'[t] # pc[t] /\ state = READY)
               => \/ pc'[t] \in {"act", "adm_wait"}
                  \/ pc'[t] = "idle" /\ Failed(emitted', {"TIMEOUT"})
          /\ (pc[t] = "cr_woken" /\ pc'[t] # pc[t] /\ state = READY)
               => \/ pc'[t] \in {"got", "dial", "cr_wait"}
                  \/ pc'[t] = "fail" /\ Failed(emitted', {"TIMEOUT"})]_vars
\* reset_without_pause() has just woken a waiting thread of a READY pool
\* that pauses on reset(): the pool is still READY
C26_Witness ==
  /\ opts.pause_enabled
  /\ state = READY
  /\ generation = 1
  /\ Has(emitted, "PoolCleared", "none")
  /\ \E t \in Threads : pc[t] \in {"adm_woken", "cr_woken"}

\* C27 as stated: every step of remove_stale_sockets changes requests and
\* _pending by the units it takes or gives back at that step, so that it
\* holds none when it returns; a step of it that adds to requests leaves
\* requests at most maxPoolSize, and one that adds to _pending leaves
\* _pending at most maxConnecting.
C27_MaintenanceAccounting ==
  [][mpc' # mpc
       => /\ requests' - requests
               = maintenance_requests(mpc') - maintenance_requests(mpc)
          /\ _pending' - _pending
               = maintenance_pending(mpc') - maintenance_pending(mpc)
          /\ requests' > requests => ~Lt(max_pool_size, requests')
          /\ _pending' > _pending => _pending' <= _max_connecting]_vars

\* C27 as amended: the accounting is as stated and _pending stays at most
\* maxConnecting; requests is left at most minPoolSize by a step of
\* remove_stale_sockets that adds to it, hence at most maxPoolSize when
\* minPoolSize <= maxPoolSize.
C27_MaintenanceAccountingToMinPoolSize ==
  [][mpc' # mpc
       => /\ requests' - requests
               = maintenance_requests(mpc') - maintenance_requests(mpc)
          /\ _pending' - _pending
               = maintenance_pending(mpc') - maintenance_pending(mpc)
          /\ requests' > requests
               => /\ requests' <= opts.min_pool_size
                  /\ opts.min_pool_size <= max_pool_size
                       => ~Lt(max_pool_size, requests')
          /\ _pending' > _pending => _pending' <= _max_connecting]_vars
\* remove_stale_sockets found the creation slot taken by a checkout and is
\* on its way out, the unit of requests it took still to be given back
C27_Witness ==
  /\ mpc = "m_rel"
  /\ ~mcont
  /\ _pending = _max_connecting
  /\ \E t \in Threads : pc[t] = "dial"

\* C28: when remove_stale_sockets has created a connection and finds, under
\* the lock, that the pool's generation is not reference_generation, it
\* publishes ConnectionClosed STALE for that connection and nothing else,
\* leaves the idle deque as it was, and goes through its finally to the
\* return without another round of the loop.
C28_MinFillDiscardsAfterReset ==
  [][/\ (mpc = "m_push" /\ mpc' # "m_push" /\ generation # mref)
          => /\ emitted' = <<Event("ConnectionClosed", "STALE", mconn.id)>>
             /\ sockets' = sockets
             /\ mconn' = NoConn
             /\ mpc' = "m_unpend"
             /\ ~mcont'
     /\ (mpc \in {"m_unpend", "m_rel"} /\ ~mcont /\ mpc' # mpc)
          => /\ mpc' \in {"m_rel", "m_idle"}
             /\ ~mcont'
             /\ sockets' = sockets
             /\ next_connection_id' = next_connection_id]_vars
\* the pool was reset while remove_stale_sockets created connection 1, which
\* it has just closed with STALE; the deque is empty
C28_Witness ==
  /\ mpc = "m_unpend"
  /\ ~mcont
  /\ generation # mref
  /\ state # CLOSED
  /\ sockets = <<>>
  /\ emitted = <<Event("ConnectionClosed", "STALE", 1)>>

\* C29 as stated: a checkin of an open connection, in the process that made
\* the pool, that comes to its end while the pool is CLOSED (at the unlocked
\* test of closed or in the locked section) closes the connection with
\* POOL_CLOSED and leaves the idle deque as it was; the release that follows
\* every checkin takes one off requests, active_sockets and operation_count.
C29_CheckinOnClosedPool ==
  [][\A t \in Threads :
       /\ (~forked /\ state = CLOSED /\ ~held[t].closed
             /\ pc[t] \in {"held", "ci_push"} /\ pc'[t] = "ci_rel")
            => /\ held'[t] = ClosedConn("POOL_CLOSED")
               /\ Has(emitted', "ConnectionClosed", "POOL_CLOSED")
               /\ sockets' = sockets
       /\ (pc[t] = "ci_rel" /\ pc'[t] # "ci_rel")
            => /\ requests' = requests - 1
               /\ active_sockets' = active_sockets - 1
               /\ operation_count' = operation_count - 1]_vars

\* C29 as amended: such a checkin closes the connection with POOL_CLOSED
\* when it finds the pool CLOSED at the unlocked test, and with STALE when
\* the pool was closed between that test and the locked section; in both
\* cases the idle deque stays as it was, and the release takes one off
\* requests, active_sockets and operation_count.
C29_CheckinOnClosedPoolOrClosedSince ==
  [][\A t \in Threads :
       /\ (~forked /\ state = CLOSED /\ ~held[t].closed
             /\ pc[t] = "held" /\ pc'[t] = "ci_rel")
            => /\ held'[t] = ClosedConn("POOL_CLOSED")
               /\ emitted' = <<CheckedIn(held[t]),
                               Event("ConnectionClosed", "POOL_CLOSED",
                                     held[t].id)>>
               /\ sockets' = sockets
       /\ (~forked /\ state = CLOSED /\ pc[t] = "held" /\ pc'[t] # "held")
            => pc'[t] = "ci_rel"
       /\ (~forked /\ state = CLOSED
             /\ pc[t] = "ci_push" /\ pc'[t] # "ci_push")
            => /\ pc'[t] = "ci_rel"
               /\ held'[t] = ClosedConn("STALE")
               /\ emitted' = <<Event("ConnectionClosed", "STALE",
                                     held[t].id)>>
               /\ sockets' = sockets
       /\ (pc[t] = "ci_rel" /\ pc'[t] # "ci_rel")
            => /\ requests' = requests - 1
               /\ active_sockets' = active_sockets - 1
               /\ operation_count' = operation_count - 1]_vars
\* two checkins on a CLOSED pool are before their release: one found the
\* pool closed at the unlocked test, the other was overtaken by close()
C29_Witness ==
  /\ state = CLOSED
  /\ ~forked
  /\ sockets = <<>>
  /\ \E t, u \in Threads :
       /\ pc[t] = "ci_rel" /\ held[t] = ClosedConn("POOL_CLOSED")
       /\ pc[u] = "ci_rel" /\ held[u] = ClosedConn("STALE")

\* C30: a checkout thread that leaves the creation critical section to dial
\* found the idle deque empty and a creation slot free, and took the slot;
\* one that leaves it, without failing, while the deque is not empty takes
\* the connection at its front and leaves _pending as it was, whether or
\* not a creation slot is free.
C30_ReuseBeforeCreation ==
  [][\A t \in Threads :
       /\ (pc[t] \in {"conn", "cr_woken"} /\ pc'[t] = "dial")
            => /\ sockets = <<>>
               /\ _pending < _max_connecting
               /\ _pending' = _pending + 1
       /\ (pc[t] \in {"conn", "cr_woken"} /\ sockets # <<>>
             /\ pc'[t] \notin {pc[t], "fail"})
            => /\ pc'[t] = "got"
               /\ held'[t] = Head(sockets)
               /\ sockets' = Tail(sockets)
               /\ _pending' = _pending
               /\ next_connection_id' = next_connection_id]_vars
\* a checkout has just taken an idle connection from the deque although no
\* creation was in flight
C30_Witness ==
  /\ _pending = 0
  /\ state = READY
  /\ \E t \in Threads :
       /\ pc[t] = "got"
       /\ ~held[t].closed
       /\ held[t].gen = generation

C32_IdleDequeOrderedByCheckin ==
  /\ [](\A i, j \in DOMAIN sockets :
          i < j => last_checkin_time[sockets[i].id]
                     >= last_checkin_time[sockets[j].id])
  /\ [][(mpc = "m_prune" /\ mpc' # "m_prune")
          => \A i \in DOMAIN sockets' :
               idle_time_seconds(sockets'[i])
                 <= opts.max_idle_time_seconds]_vars

C34_CloseIsIdempotent ==
  [][/\ \A i \in DOMAIN emitted' :
          emitted'[i].name = "ConnectionClosed"
            => /\ emitted'[i].id \notin OpenIds'
               /\ \/ emitted'[i].id \in OpenIds
                  \/ /\ emitted'[i].id = next_connection_id
                     /\ next_connection_id' = next_connection_id + 1
               /\ \A j \in DOMAIN emitted' :
                    (j # i /\ emitted'[j].name = "ConnectionClosed")
                      => emitted'[j].id # emitted'[i].id
     /\ OpenIds' \subseteq OpenIds \cup {next_connection_id}
     /\ \A t \in Threads :
          (pc[t] = "held" /\ pc'[t] # "held" /\ held[t].closed)
            => /\ held'[t] = held[t]
               /\ \A i \in DOMAIN emitted' :
                    emitted'[i].name # "ConnectionClosed"]_vars
\* a caller closed its connection after an I/O error and has checked it in
\* on a pool that was closed meanwhile: close_socket(POOL_CLOSED) found it
\* closed, and the ConnectionCheckedIn is the only event of the step
C34_Witness ==
  /\ state = CLOSED
  /\ Len(emitted) = 1
  /\ emitted[1].name = "ConnectionCheckedIn"
  /\ \E t \in Threads : pc[t] = "ci_rel" /\ held[t] = ClosedConn("ERROR")

\* C35 as stated: the end of a creation, by a checkout or by the min-fill,
\* takes one off _pending, and a checkin that keeps the connection puts it
\* in the deque; each of them wakes one thread of the creation wait when
\* there is one; and, under fairness, a thread that is in the creation wait
\* while the pool is READY and the deque is not empty or a creation slot is
\* free leaves the wait, unless the pool stops being READY or the deque is
\* emptied and the slots are taken again.
C35_NoLostCreationWakeup ==
  /\ [][LET wakes == (\E u \in Threads : pc[u] = "cr_wait")
                       => \E u \in Threads :
                            pc[u] = "cr_wait" /\ pc'[u] = "cr_woken"
        IN /\ \A t \in Threads :
                /\ (pc[t] = "dialed" /\ pc'[t] # "dialed")
                     => _pending' = _pending - 1 /\ wakes
                /\ (pc[t] = "ci_push" /\ pc'[t] # "ci_push"
                      /\ held[t].gen = generation)
                     => sockets' = <<held[t]>> \o sockets /\ wakes
           /\ (mpc = "m_unpend" /\ mpc' # "m_unpend")
                => _pending' = _pending - 1 /\ wakes]_vars
  /\ \A t \in Threads :
       (/\ pc[t] = "cr_wait"
        /\ state = READY
        /\ (sockets # <<>> \/ _pending < _max_connecting))
         ~> (\/ pc[t] # "cr_wait"
             \/ state # READY
             \/ (sockets = <<>> /\ _pending >= _max_connecting))

\* C36: while a thread is in the dial, handshake and authentication of
\* connect(), for a checkout or for the min-fill, it does not hold the lock;
\* from before connect() until the finally after it the thread's slot is
\* counted in _pending and in requests, which are exactly the numbers of
\* threads holding such a slot and stay within maxConnecting and
\* max_pool_size while the other threads take the lock
C36_DialOffLockWithReservation ==
  /\ \A th \in Creators :
       lpc[th] \in InConnect \ {"id"} => lock # th
  /\ _pending = Cardinality({th \in Creators : lpc[th] \in HoldsPending})
  /\ requests = Cardinality({th \in Creators : lpc[th] \in HoldsRequest})
  /\ _pending <= _max_connecting
  /\ ~Lt(max_pool_size, requests)
\* a caller is in the dial while the maintenance thread, itself admitted,
\* holds the lock in its creation section
C36_Witness ==
  /\ lpc["_get_socket"] = "dialing"
  /\ lpc["remove_stale_sockets"] = "section"
  /\ lock = "remove_stale_sockets"
  /\ _pending = 1
  /\ requests = 2

\* C37 as stated: with CMAP listeners, the step that ends a checkout attempt
\* publishes exactly one terminal event (CheckedOut or one CheckOutFailed)
\* and no other step publishes one, on every path, ExceededMaxWaiters
\* included.  An attempt is between CheckOutStarted and the end of
\* _get_socket; it has ended when the caller has its connection or its
\* exception, when get_socket finds the pool closed right after
\* CheckOutStarted, or, for a timeout in the creation wait, when its
\* CheckOutFailed is published and only the except block is left
\* (emitted_event, 1371-1372)
C37_OneTerminalEventPerCheckout ==
  [][LET Terminals(es) ==
           Cardinality({i \in DOMAIN es :
                          es[i].name \in {"ConnectionCheckedOut",
                                          "ConnectionCheckOutFailed"}})
         InCheckout ==
           {"started", "admit", "adm_wait", "adm_woken", "act", "conn",
            "cr_wait", "cr_woken", "got", "dial", "dialed", "fail"}
         Owes(p, e) == p \in InCheckout /\ ~(p = "fail" /\ e)
     IN  enabled_for_cmap =>
           Terminals(emitted') =
             Cardinality({t \in Threads :
                            /\ Owes(pc[t], emitted_event[t])
                            /\ ~Owes(pc'[t], emitted_event'[t])})
               + (IF /\ Has(emitted', "ConnectionCheckOutStarted", "none")
                     /\ pc' = pc
                    THEN 1 ELSE 0)]_vars

\* C38 as stated: in every reachable state, a forked child that has reset
\* the pool and then checked in a connection of before the fork included,
\* requests, active_sockets, operation_count, waiters and _pending are not
\* negative and active_sockets is at most requests
C38_CountersNonNegative ==
  /\ requests >= 0
  /\ active_sockets >= 0
  /\ operation_count >= 0
  /\ waiters >= 0
  /\ _pending >= 0
  /\ active_sockets <= requests

\* C39: in every reachable state no connection of the idle deque is closed,
\* no connection is in the idle deque twice, and no connection of the idle
\* deque is with a caller (a caller gives its connection up when
\* return_socket has pushed it)
C39_IdleDequeIntegrity ==
  /\ \A i \in DOMAIN sockets : ~sockets[i].closed /\ sockets[i].id >= 1
  /\ \A i, j \in DOMAIN sockets : i # j => sockets[i].id # sockets[j].id
  /\ \A t \in Threads : \A i \in DOMAIN sockets : held[t].id # sockets[i].id
\* a caller has just pushed its connection to the idle deque while the other
\* caller holds an open connection
C39_Witness ==
  \E t, u \in Threads :
    /\ t # u
    /\ pc[t] = "ci_rel"
    /\ held[t] = NoConn
    /\ sockets # <<>>
    /\ pc[u] = "held"
    /\ held[u].id >= 1
    /\ ~held[u].closed

\* C40: reset() and reset_without_pause() on a CLOSED pool leave the state
\* CLOSED, the generation, the idle deque and every counter as they are and
\* publish neither PoolCleared nor ConnectionClosed (they publish nothing)
C40_ResetOnClosedPoolIsNoOp ==
  [][((reset \/ reset_without_pause) /\ closed)
       => /\ state' = CLOSED
          /\ UNCHANGED <<generation, sockets, active_sockets, requests,
                         waiters, _pending, operation_count,
                         next_connection_id, held>>
          /\ ~Has(emitted', "PoolCleared", "none")
          /\ \A r \in {"STALE", "POOL_CLOSED", "IDLE", "ERROR"} :
               ~Has(emitted', "ConnectionClosed", r)
          /\ emitted' = <<>>]_vars
\* a pool with listeners that was closed while a caller held a connection:
\* the counters are not zero, and the last call published nothing
C40_Witness ==
  /\ closed
  /\ enabled_for_cmap
  /\ generation = 1
  /\ emitted = <<>>
  /\ requests = 1
  /\ active_sockets = 1
  /\ \E t \in Threads : pc[t] = "held" /\ ~held[t].closed /\ held[t].id >= 1

====
